---------------------------- MODULE Spec2Model ----------------------------
(***************************************************************************)
(* A model of the collaborative text editor's synchronisation engine:      *)
(*   - the server's operational transform (server/src/transform.ts) and    *)
(*     the client's (client/src/rebase.ts),                                *)
(*   - the rope (rope.ts), as the text it holds and as the tree it is,     *)
(*   - the Fenwick tree (fenwick.ts) and the TransformEngine that rebases  *)
(*     an operation through one,                                           *)
(*   - the server document session (CollabServer, with the rope seen       *)
(*     through its text),                                                  *)
(*   - the client's sync state machine (App.tsx, connection.ts, outbox.ts, *)
(*     rebase.ts, SimpleEditor.tsx).                                       *)
(* Text is a sequence of one-character strings.                            *)
(*                                                                         *)
(* Ten specifications share the module:                                    *)
(*   SpecT       the two transforms as pure functions on a pair of         *)
(*               operations drawn in Init;                                 *)
(*   SpecT3      the server transform on three operations drawn in Init;   *)
(*   SpecRope    a Rope under calls of insert, delete and substring;       *)
(*   SpecFenwick a FenwickTree under calls of update and query;            *)
(*   SpecShift   the TransformEngine on an operation and a tail of         *)
(*               operations drawn in Init;                                 *)
(*   SpecConn    the connection of one CollabClient: its sockets, its      *)
(*               reconnect timer, and the page that mounts and unmounts;   *)
(*   Spec        the server under arbitrary connections (any frame, any    *)
(*               order), one step per handled event;                       *)
(*   SpecSync    the server with three real clients and FIFO channels;     *)
(*   SpecClient  the server with one real client that may lose its         *)
(*               connection and reconnect, and a peer that sends ops;      *)
(*   SpecClientFair  SpecClient under fair delivery and a reconnect timer  *)
(*               that fires.                                               *)
(***************************************************************************)

EXTENDS Integers, Sequences, FiniteSets, TLC

(***************************************************************************)
(* Bounds of the model.                                                    *)
(***************************************************************************)
\* longest base string of the generic transform inputs
MaxBase == 3
\* the server stops accepting ops once serverSeq has reached this value
MaxSeq == 2
\* local edits made by all clients together in SpecSync and SpecClient
MaxEdits == 2
\* connection losses of the browser of SpecClient
MaxDrops == 1
\* SpecShift: the longest tail of operations
MaxTail == 2
\* SpecConn: the WebSockets one CollabClient may create, and the frames the
\* page asks it to send
MaxSockets == 3
MaxSends == 2
\* SpecRope: the longest initial text of a rope, and the calls made on it
MaxRopeText == 2
MaxCalls == 3
\* SpecFenwick: the largest size of a FenwickTree, and the calls made on it
MaxSize == 4
MaxFenCalls == 3

(***************************************************************************)
(* Text.                                                                   *)
(***************************************************************************)
Min(a, b) == IF a < b THEN a ELSE b
Max(a, b) == IF a > b THEN a ELSE b

\* String.prototype.slice(start, end) for 0 <= start: the end is clamped to
\* the length, an empty range gives the empty string.
Slice(s, start, end) ==
  LET e == Min(end, Len(s))
  IN  IF start >= e THEN <<>> ELSE SubSeq(s, start + 1, e)

\* String.prototype.slice(start): to the end of the string.
SliceFrom(s, start) == Slice(s, start, Len(s))

\* UTF-16 code units of the characters client ids are made of.
CharCode == [ch \in {"A", "B", "C"} |->
               CASE ch = "A" -> 65 [] ch = "B" -> 66 [] ch = "C" -> 67]

\* JavaScript's < on two strings, for the one-character client ids of the model.
StringLess(x, y) == CharCode[x] < CharCode[y]

(***************************************************************************)
(* Operations (types.ts): an insert carries text, a delete carries len.    *)
(***************************************************************************)
InsertOp(pos, text, clientId, clientSeq) ==
  [type |-> "insert", pos |-> pos, text |-> text,
   clientId |-> clientId, clientSeq |-> clientSeq]

DeleteOp(pos, len, clientId, clientSeq) ==
  [type |-> "delete", pos |-> pos, len |-> len,
   clientId |-> clientId, clientSeq |-> clientSeq]

(***************************************************************************)
(* server/src/transform.ts                                                 *)
(***************************************************************************)
\* the same-position tie-break with the comparison turned round
transformInsertInsert_flipped(opA, opB) ==
  IF opB.pos < opA.pos
    THEN [opA EXCEPT !.pos = opA.pos + Len(opB.text)]
    ELSE IF opB.pos > opA.pos
      THEN opA
      ELSE IF StringLess(opA.clientId, opB.clientId)
        THEN [opA EXCEPT !.pos = opA.pos + Len(opB.text)]
        ELSE opA

transformInsertInsert(opA, opB) ==
  IF opB.pos < opA.pos
    THEN [opA EXCEPT !.pos = opA.pos + Len(opB.text)]
    ELSE IF opB.pos > opA.pos
      THEN opA
      ELSE IF StringLess(opB.clientId, opA.clientId)
        THEN [opA EXCEPT !.pos = opA.pos + Len(opB.text)]
        ELSE opA

\* an insert that keeps its position whatever was deleted before it
transformInsertDelete_unmoved(opA, opB) == opA

transformInsertDelete(opA, opB) ==
  LET deleteEnd == opB.pos + opB.len
  IN  IF opA.pos <= opB.pos
        THEN opA
        ELSE IF opA.pos >= deleteEnd
          THEN [opA EXCEPT !.pos = opA.pos - opB.len]
          ELSE [opA EXCEPT !.pos = opB.pos]

transformDeleteInsert(opA, opB) ==
  LET deleteEnd == opA.pos + opA.len
  IN  IF opB.pos <= opA.pos
        THEN [opA EXCEPT !.pos = opA.pos + Len(opB.text)]
        ELSE IF opB.pos >= deleteEnd
          THEN opA
          ELSE [opA EXCEPT !.len = opA.len + Len(opB.text)]

\* a delete-delete that handles the disjoint ranges only
transformDeleteDelete_disjoint(opA, opB) ==
  IF opB.pos + opB.len <= opA.pos
    THEN [opA EXCEPT !.pos = opA.pos - opB.len]
    ELSE opA

transformDeleteDelete(opA, opB) ==
  LET aEnd == opA.pos + opA.len
      bEnd == opB.pos + opB.len
  IN  IF bEnd <= opA.pos
        THEN [opA EXCEPT !.pos = opA.pos - opB.len]
      ELSE IF opB.pos >= aEnd
        THEN opA
      ELSE IF opB.pos <= opA.pos /\ bEnd >= aEnd
        THEN [opA EXCEPT !.pos = opB.pos, !.len = 0]
      ELSE IF opA.pos <= opB.pos /\ aEnd >= bEnd
        THEN [opA EXCEPT !.len = opA.len - opB.len]
      ELSE IF opB.pos < opA.pos /\ bEnd > opA.pos /\ bEnd < aEnd
        THEN [opA EXCEPT !.pos = opB.pos, !.len = aEnd - bEnd]
      ELSE IF opB.pos > opA.pos /\ opB.pos < aEnd /\ bEnd >= aEnd
        THEN [opA EXCEPT !.len = opB.pos - opA.pos]
      ELSE opA

transform(opA, opB) ==
  IF opA.type = "insert" /\ opB.type = "insert"
    THEN transformInsertInsert(opA, opB)
  ELSE IF opA.type = "insert" /\ opB.type = "delete"
    THEN transformInsertDelete(opA, opB)
  ELSE IF opA.type = "delete" /\ opB.type = "insert"
    THEN transformDeleteInsert(opA, opB)
  ELSE transformDeleteDelete(opA, opB)


\* transformAgainstOps: fold over the sequence, left to right
RECURSIVE transformAgainstOps(_, _)
transformAgainstOps(op, ops) ==
  IF ops = <<>> THEN op
  ELSE transformAgainstOps(transform(op, Head(ops)), Tail(ops))

(***************************************************************************)
(* client/src/rebase.ts                                                    *)
(***************************************************************************)
\* op.text?.length || 0
TextLength(op) == IF op.type = "insert" THEN Len(op.text) ELSE 0

\* a length that is taken for absent
LenOrZero_absent(op) == 0

\* op.len || 0
LenOrZero(op) == IF op.type = "delete" THEN op.len ELSE 0

\* rebase.ts: transform(op1, op2)
rebaseTransform(op1, op2) ==
  IF op1.type = "insert" /\ op2.type = "insert" THEN
    IF op1.pos < op2.pos THEN op1
    ELSE IF op1.pos > op2.pos
      THEN [op1 EXCEPT !.pos = op1.pos + TextLength(op2)]
    ELSE IF StringLess(op1.clientId, op2.clientId) THEN op1
    ELSE [op1 EXCEPT !.pos = op1.pos + TextLength(op2)]
  ELSE IF op1.type = "insert" /\ op2.type = "delete" THEN
    LET delEnd == op2.pos + LenOrZero(op2)
    IN  IF op1.pos <= op2.pos THEN op1
        ELSE IF op1.pos >= delEnd
          THEN [op1 EXCEPT !.pos = op1.pos - LenOrZero(op2)]
        ELSE [op1 EXCEPT !.pos = op2.pos]
  ELSE IF op1.type = "delete" /\ op2.type = "insert" THEN
    IF op1.pos < op2.pos
      THEN LET delEnd == op1.pos + LenOrZero(op1)
           IN  IF delEnd <= op2.pos THEN op1
               ELSE [op1 EXCEPT !.len = LenOrZero(op1) + TextLength(op2)]
      ELSE [op1 EXCEPT !.pos = op1.pos + TextLength(op2)]
  ELSE IF op1.type = "delete" /\ op2.type = "delete" THEN
    LET del1End == op1.pos + LenOrZero(op1)
        del2End == op2.pos + LenOrZero(op2)
    IN  IF del1End <= op2.pos THEN op1
        ELSE IF op1.pos >= del2End
          THEN [op1 EXCEPT !.pos = op1.pos - LenOrZero(op2)]
        ELSE LET newPos == Min(op1.pos, op2.pos)
                 newEnd == Max(del1End, del2End) - LenOrZero(op2)
                 newLen == Max(0, newEnd - newPos)
             IN  [op1 EXCEPT !.pos = newPos, !.len = newLen]
  ELSE op1

\* rebase.ts: rebaseOperation(localOp, serverOps)
RECURSIVE rebaseOperation(_, _)
rebaseOperation(localOp, serverOps) ==
  IF serverOps = <<>> THEN localOp
  ELSE rebaseOperation(rebaseTransform(localOp, Head(serverOps)), Tail(serverOps))

(***************************************************************************)
(* The rope, seen through the text it holds.  A mutator either throws,     *)
(* leaving the rope as it was, or returns the new text.                    *)
(***************************************************************************)
RopeResult(threw, text) == [threw |-> threw, text |-> text]

\* Rope.insert with the upper bound check off by one
RopeInsert_loose(rope, pos, text) ==
  IF pos < 0 \/ pos > Len(rope) + 1
    THEN RopeResult(TRUE, rope)
    ELSE RopeResult(FALSE, Slice(rope, 0, pos) \o text \o SliceFrom(rope, pos))

\* Rope.insert(pos, text)
RopeInsert(rope, pos, text) ==
  IF pos < 0 \/ pos > Len(rope)
    THEN RopeResult(TRUE, rope)
    ELSE RopeResult(FALSE, Slice(rope, 0, pos) \o text \o SliceFrom(rope, pos))

\* Rope.delete(pos, len)
RopeDelete(rope, pos, len) ==
  IF pos < 0 \/ pos + len > Len(rope)
    THEN RopeResult(TRUE, rope)
    ELSE IF rope = <<>> \/ len = 0
      THEN RopeResult(FALSE, rope)
      ELSE RopeResult(FALSE, Slice(rope, 0, pos) \o SliceFrom(rope, pos + len))

\* How the tests replay an operation on a replica: rope.insert(op.pos, op.text)
\* or rope.delete(op.pos, op.len).
ApplyToRope(rope, op) ==
  IF op.type = "insert"
    THEN RopeInsert(rope, op.pos, op.text)
    ELSE RopeDelete(rope, op.pos, op.len)

(***************************************************************************)
(* The rope as the tree it is (rope.ts).  A RopeNode is a record: a leaf   *)
(* holds text, an internal node holds left and right; Undefined stands for *)
(* an absent node.  No method changes a node once it is part of a tree, so *)
(* a tree is a value.                                                      *)
(***************************************************************************)
Undefined == [kind |-> "undefined"]
Absent(node) == node.kind = "undefined"

\* new RopeNode(text)
RopeNode(text) ==
  [kind |-> "leaf", text |-> text, weight |-> Len(text), height |-> 1]

\* RopeNode.isLeaf()
isLeaf(node) == node.kind = "leaf"

\* RopeNode.length()
RECURSIVE nodeLength(_)
nodeLength(node) ==
  IF isLeaf(node) THEN Len(node.text)
  ELSE node.weight + (IF Absent(node.right) THEN 0 ELSE nodeLength(node.right))

\* RopeNode.toString()
RECURSIVE nodeToString(_)
nodeToString(node) ==
  IF isLeaf(node) THEN node.text
  ELSE (IF Absent(node.left) THEN <<>> ELSE nodeToString(node.left))
       \o (IF Absent(node.right) THEN <<>> ELSE nodeToString(node.right))

\* the outcome of a call that returns a string: it threw, or it returned value
Returned(value) == [threw |-> FALSE, value |-> value]
Threw == [threw |-> TRUE, value |-> <<>>]

\* RopeNode.substring(start, end)
RECURSIVE nodeSubstring(_, _, _)
nodeSubstring(node, start, end) ==
  IF start < 0 \/ end > nodeLength(node) \/ start > end THEN Threw
  ELSE IF isLeaf(node) THEN Returned(Slice(node.text, start, end))
  ELSE IF end <= node.weight THEN nodeSubstring(node.left, start, end)
  ELSE IF start >= node.weight
    THEN nodeSubstring(node.right, start - node.weight, end - node.weight)
  ELSE LET leftPart == nodeSubstring(node.left, start, node.weight)
           rightPart == nodeSubstring(node.right, 0, end - node.weight)
       IN  IF leftPart.threw \/ rightPart.threw THEN Threw
           ELSE Returned(leftPart.value \o rightPart.value)

\* new Rope(text): the empty string is falsy and leaves the root undefined
NewRope(text) == IF text # <<>> THEN RopeNode(text) ELSE Undefined

\* Rope.length()
ropeLength(root) == IF Absent(root) THEN 0 ELSE nodeLength(root)

\* Rope.toString()
ropeToString(root) == IF Absent(root) THEN <<>> ELSE nodeToString(root)

\* Rope.substring(start, end)
substring(root, start, end) ==
  IF Absent(root) THEN Returned(<<>>) ELSE nodeSubstring(root, start, end)

\* Rope.getHeight(node)
getHeight(node) == IF Absent(node) THEN 0 ELSE node.height

\* a concatenation with the two sides exchanged
concatenate_exchanged(left, right) ==
  IF Absent(left) THEN right
  ELSE IF Absent(right) THEN left
  ELSE [kind |-> "internal", left |-> right, right |-> left,
        weight |-> nodeLength(right),
        height |-> Max(getHeight(left), getHeight(right)) + 1]

\* Rope.concatenate(left, right)
concatenate(left, right) ==
  IF Absent(left) THEN right
  ELSE IF Absent(right) THEN left
  ELSE [kind |-> "internal", left |-> left, right |-> right,
        weight |-> nodeLength(left),
        height |-> Max(getHeight(left), getHeight(right)) + 1]

\* Rope.split(node, pos): the pair [left, right]
RECURSIVE split(_, _)
split(node, pos) ==
  IF Absent(node) THEN <<Undefined, Undefined>>
  ELSE IF isLeaf(node) THEN
    IF pos = 0 THEN <<Undefined, node>>
    ELSE IF pos >= Len(node.text) THEN <<node, Undefined>>
    ELSE <<RopeNode(Slice(node.text, 0, pos)), RopeNode(SliceFrom(node.text, pos))>>
  ELSE IF pos <= node.weight
    THEN LET lr == split(node.left, pos)
         IN  <<lr[1], concatenate(lr[2], node.right)>>
    ELSE LET lr == split(node.right, pos - node.weight)
         IN  <<concatenate(node.left, lr[1]), lr[2]>>

\* the outcome of a mutator: it threw and left the root as it was, or it
\* returned with the new root
Mutated(root) == [threw |-> FALSE, root |-> root]
Rejected(root) == [threw |-> TRUE, root |-> root]

\* an insert that takes a position past the end for the end
insert_lenient(root, pos, text) ==
  IF pos < 0 THEN Rejected(root)
  ELSE IF Absent(root) THEN Mutated(RopeNode(text))
  ELSE IF pos = 0 THEN Mutated(concatenate(RopeNode(text), root))
  ELSE Mutated(concatenate(root, RopeNode(text)))

\* Rope.insert(pos, text)
insert(root, pos, text) ==
  IF pos < 0 \/ pos > ropeLength(root) THEN Rejected(root)
  ELSE LET newNode == RopeNode(text)
       IN  IF Absent(root) THEN Mutated(newNode)
           ELSE IF pos = 0 THEN Mutated(concatenate(newNode, root))
           ELSE IF pos = ropeLength(root) THEN Mutated(concatenate(root, newNode))
           ELSE LET lr == split(root, pos)
                    temp == concatenate(lr[1], newNode)
                IN  Mutated(concatenate(temp, lr[2]))

\* Rope.delete(pos, len)
delete(root, pos, len) ==
  IF pos < 0 \/ pos + len > ropeLength(root) THEN Rejected(root)
  ELSE IF Absent(root) \/ len = 0 THEN Mutated(root)
  ELSE LET lt == split(root, pos)
           left == lt[1]
           temp == lt[2]
       IN  IF Absent(temp) THEN Mutated(left)
           ELSE LET right == split(temp, len)[2]
                IN  IF Absent(left) THEN Mutated(right)
                    ELSE IF Absent(right) THEN Mutated(left)
                    ELSE Mutated(concatenate(left, right))

(***************************************************************************)
(* fenwick.ts: FenwickTree.  tree is the array of size + 1 numbers, as a   *)
(* function on 0..size.                                                    *)
(***************************************************************************)
\* idx & (-idx): the lowest set bit of a positive integer
RECURSIVE LowBit(_)
LowBit(idx) == IF idx % 2 = 1 THEN 1 ELSE 2 * LowBit(idx \div 2)

\* new FenwickTree(size)
NewFenwickTree(size) == [size |-> size, tree |-> [i \in 0..size |-> 0]]

\* the loop of update, from the 1-indexed idx on
RECURSIVE updateLoop(_, _, _)
updateLoop(ft, idx, delta) ==
  IF idx <= ft.size
    THEN updateLoop([ft EXCEPT !.tree[idx] = @ + delta], idx + LowBit(idx), delta)
    ELSE ft

\* an update that adds delta to the one node of idx and to no ancestor
update_oneNode(ft, idx, delta) ==
  IF idx < 0 \/ idx >= ft.size
    THEN [threw |-> TRUE, ft |-> ft]
    ELSE [threw |-> FALSE, ft |-> [ft EXCEPT !.tree[idx + 1] = @ + delta]]

\* FenwickTree.update(idx, delta)
update(ft, idx, delta) ==
  IF idx < 0 \/ idx >= ft.size
    THEN [threw |-> TRUE, ft |-> ft]
    ELSE [threw |-> FALSE, ft |-> updateLoop(ft, idx + 1, delta)]

\* the loop of query, from the 1-indexed idx down
RECURSIVE queryLoop(_, _, _)
queryLoop(ft, idx, sum) ==
  IF idx > 0
    THEN queryLoop(ft, idx - LowBit(idx), sum + ft.tree[idx])
    ELSE sum

\* FenwickTree.query(idx)
query(ft, idx) ==
  IF idx < 0 THEN 0
  ELSE queryLoop(ft, (IF idx >= ft.size THEN ft.size - 1 ELSE idx) + 1, 0)

(***************************************************************************)
(* The TransformEngine: an operation rebased against a tail of operations  *)
(* through a FenwickTree of their shifts.  A call that throws leaves       *)
(* nothing behind: its result is [threw |-> TRUE].                         *)
(***************************************************************************)
\* buildShiftIndex: "let maxPos = 10000" and "maxPos = op.pos + 1000"
DefaultMaxPos == 10000
MaxPosMargin == 1000

\* FenwickTree.addInsert(pos, len)
addInsert(ft, pos, len) ==
  IF len <= 0 THEN [threw |-> FALSE, ft |-> ft] ELSE update(ft, pos, len)

\* FenwickTree.addDelete(pos, len)
addDelete(ft, pos, len) ==
  IF len <= 0 THEN [threw |-> FALSE, ft |-> ft] ELSE update(ft, pos, -len)

\* the first loop of buildShiftIndex: the size of the tree
RECURSIVE maxPosLoop(_, _)
maxPosLoop(ops, maxPos) ==
  IF ops = <<>> THEN maxPos
  ELSE maxPosLoop(Tail(ops),
                  IF Head(ops).pos > maxPos
                    THEN Head(ops).pos + MaxPosMargin
                    ELSE maxPos)

\* the second loop of buildShiftIndex: every op recorded in the tree, up to
\* the first that throws
RECURSIVE recordLoop(_, _)
recordLoop(ops, ft) ==
  IF ops = <<>> THEN [threw |-> FALSE, ft |-> ft]
  ELSE LET op == Head(ops)
           r == IF op.type = "insert" /\ op.text # <<>>
                  THEN addInsert(ft, op.pos, Len(op.text))
                ELSE IF op.type = "delete" /\ op.len # 0
                  THEN addDelete(ft, op.pos, op.len)
                ELSE [threw |-> FALSE, ft |-> ft]
       IN  IF r.threw THEN r ELSE recordLoop(Tail(ops), r.ft)

\* TransformEngine.buildShiftIndex(ops, sinceSeq)
buildShiftIndex(ops, sinceSeq) ==
  recordLoop(ops, NewFenwickTree(maxPosLoop(ops, DefaultMaxPos)))

\* TransformEngine.rebaseOp(op, fenwick)
rebaseOp(op, ft) ==
  IF op.pos = 0 THEN op
  ELSE [op EXCEPT !.pos = Max(0, op.pos + query(ft, op.pos - 1))]

\* TransformEngine.transformAgainstTail(op, tailOps)
transformAgainstTail(op, tailOps) ==
  IF tailOps = <<>> THEN [threw |-> FALSE, op |-> op]
  ELSE LET built == buildShiftIndex(tailOps, 0)
       IN  IF built.threw THEN [threw |-> TRUE]
           ELSE [threw |-> FALSE, op |-> rebaseOp(op, built.ft)]

(***************************************************************************)
(* The connection of a CollabClient (connection.ts).  The client holds ws  *)
(* and reconnectTimer; Null stands for null.  ws is the number of a        *)
(* WebSocket among those the client has created, each with the readyState  *)
(* it is in, the types of the frames sent on it, and the handlers          *)
(* connect() gave it; reconnectTimer is the id of a timeout among those    *)
(* setTimeout has handed out, each "pending", "fired" or "cleared".        *)
(***************************************************************************)
Null == 0
Page(cc, webSockets, timeouts) ==
  [cc |-> cc, webSockets |-> webSockets, timeouts |-> timeouts]

\* new CollabClient(url, handlers)
NewCollabClient == [ws |-> Null, reconnectTimer |-> Null]

\* CollabClient.connect()
NewWebSocket == [readyState |-> "CONNECTING", sent |-> <<>>]
connect(p) ==
  Page([p.cc EXCEPT !.ws = Len(p.webSockets) + 1],
       Append(p.webSockets, NewWebSocket), p.timeouts)

\* CollabClient.send(msg): on this.ws if it is open, and otherwise nowhere
send(p, type) ==
  IF p.cc.ws # Null /\ p.webSockets[p.cc.ws].readyState = "OPEN"
    THEN Page(p.cc, [p.webSockets EXCEPT ![p.cc.ws].sent = Append(@, type)],
              p.timeouts)
    ELSE p

\* CollabClient.scheduleReconnect()
scheduleReconnect(p) ==
  Page([p.cc EXCEPT !.reconnectTimer = Len(p.timeouts) + 1],
       p.webSockets, Append(p.timeouts, "pending"))

\* clearTimeout(id): a timeout that is still pending will not fire
clearTimeout(timeouts, id) ==
  IF id \in DOMAIN timeouts /\ timeouts[id] = "pending"
    THEN [timeouts EXCEPT ![id] = "cleared"]
    ELSE timeouts

\* WebSocket.close(): a socket not yet closed starts closing, and its close
\* event comes later
close(webSockets, ws) ==
  IF webSockets[ws].readyState \in {"CONNECTING", "OPEN"}
    THEN [webSockets EXCEPT ![ws].readyState = "CLOSING"]
    ELSE webSockets

\* CollabClient.disconnect()
disconnect(p) ==
  LET cleared == IF p.cc.reconnectTimer # Null
                   THEN Page([p.cc EXCEPT !.reconnectTimer = Null],
                             p.webSockets,
                             clearTimeout(p.timeouts, p.cc.reconnectTimer))
                   ELSE p
  IN  Page([cleared.cc EXCEPT !.ws = Null],
           IF cleared.cc.ws # Null
             THEN close(cleared.webSockets, cleared.cc.ws)
             ELSE cleared.webSockets,
           cleared.timeouts)

(***************************************************************************)
(* The server: CollabServer (server.ts).                                   *)
(*                                                                         *)
(* docs is the Map<string, DocState> as the sequence of its entries in     *)
(* insertion order, each [id, rope, ops, serverSeq, clients]; clients is   *)
(* the Map<clientId, {ws, info}> as the sequence of its entries            *)
(* [id, ws] in insertion order.  A handler is a function of the server     *)
(* state and its arguments; it returns the new docs and the ws.send calls  *)
(* it made, in order, each [to |-> ws, frame |-> frame].                   *)
(***************************************************************************)
Handled(newDocs, sends) == [docs |-> newDocs, sends |-> sends]
Send(ws, frame) == [to |-> ws, frame |-> frame]

\* indices of the entries of a Map (as a sequence) whose key is k: none or one
KeyIndex(entries, k) == {i \in 1..Len(entries) : entries[i].id = k}
HasKey(entries, k) == KeyIndex(entries, k) # {}
Get(entries, k) == entries[CHOOSE i \in KeyIndex(entries, k) : TRUE]

\* Map.set: an existing key keeps its place, a new key goes last
MapSet(entries, entry) ==
  IF HasKey(entries, entry.id)
    THEN [i \in 1..Len(entries) |->
            IF entries[i].id = entry.id THEN entry ELSE entries[i]]
    ELSE Append(entries, entry)

\* Map.delete
MapDelete(entries, k) ==
  LET keep == {i \in 1..Len(entries) : entries[i].id # k}
      F[i \in 0..Len(entries)] ==
        IF i = 0 THEN <<>>
        ELSE IF i \in keep THEN Append(F[i - 1], entries[i]) ELSE F[i - 1]
  IN  F[Len(entries)]

\* a session that starts with a text of its own
NewDoc_greeting(docId) ==
  [id |-> docId, rope |-> <<"h", "i">>, ops |-> <<>>, serverSeq |-> 0,
   clients |-> <<>>]

\* the document state handleJoin creates
NewDoc(docId) ==
  [id |-> docId, rope |-> <<>>, ops |-> <<>>, serverSeq |-> 0, clients |-> <<>>]

\* the argument broadcast is called without
NoExclude == "undefined"

\* broadcast that returns after the first client it sent to
broadcast_firstOnly(docsNow, readyState, docId, frame, excludeClientId) ==
  IF ~HasKey(docsNow, docId) THEN <<>>
  ELSE
    LET clients == Get(docsNow, docId).clients
        F[i \in 0..Len(clients)] ==
          IF i = 0 THEN <<>>
          ELSE IF /\ F[i - 1] = <<>>
                  /\ clients[i].id # excludeClientId
                  /\ readyState[clients[i].ws] = "OPEN"
                 THEN Append(F[i - 1], Send(clients[i].ws, frame))
                 ELSE F[i - 1]
    IN  F[Len(clients)]

\* broadcast(docId, message, excludeClientId): the sends, in roster order
broadcast(docsNow, readyState, docId, frame, excludeClientId) ==
  IF ~HasKey(docsNow, docId) THEN <<>>
  ELSE
    LET clients == Get(docsNow, docId).clients
        F[i \in 0..Len(clients)] ==
          IF i = 0 THEN <<>>
          ELSE IF /\ clients[i].id # excludeClientId
                  /\ readyState[clients[i].ws] = "OPEN"
                 THEN Append(F[i - 1], Send(clients[i].ws, frame))
                 ELSE F[i - 1]
    IN  F[Len(clients)]

\* the joined frame with a sequence number that is always 0
JoinedFrame_zero(clientId, doc) ==
  [type |-> "joined", clientId |-> clientId, seq |-> 0, doc |-> doc.rope,
   clients |-> [i \in 1..Len(doc.clients) |-> doc.clients[i].id]]

\* the joined frame with the text the session was created with
JoinedFrame_emptyDoc(clientId, doc) ==
  [type |-> "joined", clientId |-> clientId, seq |-> doc.serverSeq,
   doc |-> <<>>,
   clients |-> [i \in 1..Len(doc.clients) |-> doc.clients[i].id]]

\* the frame handleJoin answers with
JoinedFrame(clientId, doc) ==
  [type |-> "joined", clientId |-> clientId, seq |-> doc.serverSeq,
   doc |-> doc.rope,
   clients |-> [i \in 1..Len(doc.clients) |-> doc.clients[i].id]]

JoinFrame(clientId) == [type |-> "join", clientId |-> clientId]

\* handleJoin(ws, message); `generated` is what generateClientId() would
\* return.  A field the message does not carry is read as "".
handleJoin(docsNow, readyState, ws, message, generated) ==
  LET docId == IF message.docId = "" THEN "default" ELSE message.docId
      clientId == IF message.clientId = "" THEN generated ELSE message.clientId
      docs1 == IF HasKey(docsNow, docId) THEN docsNow
               ELSE Append(docsNow, NewDoc(docId))
      doc0 == Get(docs1, docId)
      doc1 == [doc0 EXCEPT !.clients = MapSet(@, [id |-> clientId, ws |-> ws])]
      docs2 == MapSet(docs1, doc1)
  IN  Handled(docs2,
              <<Send(ws, JoinedFrame(clientId, doc1))>>
              \o broadcast(docs2, readyState, docId, JoinFrame(clientId), clientId))

ErrorFrame(message) == [type |-> "error", message |-> message]

\* the ack with the sequence number read before the increment
AckFrame_stale(operation, serverSeq) ==
  [type |-> "ack", clientSeq |-> operation.clientSeq, serverSeq |-> serverSeq - 1]

AckFrame(operation, serverSeq) ==
  [type |-> "ack", clientSeq |-> operation.clientSeq, serverSeq |-> serverSeq]

OpFrame(operation, serverSeq) ==
  [type |-> "op", operation |-> operation, serverSeq |-> serverSeq]

\* the increment left out
IncrementSeq_forgotten(serverSeq) == serverSeq

\* doc.serverSeq++
IncrementSeq(serverSeq) == serverSeq + 1

\* the operation clamped into the rope before it is applied
applyOperation_clamping(rope, operation) ==
  LET pos == Max(0, Min(operation.pos, Len(rope)))
  IN  IF operation.type = "insert" /\ operation.text # <<>>
        THEN RopeInsert(rope, pos, operation.text)
      ELSE IF operation.type = "delete" /\ operation.len # 0
        THEN RopeDelete(rope, pos, Min(operation.len, Len(rope) - pos))
      ELSE RopeResult(FALSE, rope)

\* every operation handed to the rope, the zero-width ones included
applyOperation_strict(rope, operation) ==
  IF operation.type = "insert"
    THEN RopeInsert(rope, operation.pos, operation.text)
    ELSE RopeDelete(rope, operation.pos, operation.len)

\* "Apply operation to Rope": neither branch runs for an insert with empty
\* text or a delete with len 0
applyOperation(rope, operation) ==
  IF operation.type = "insert" /\ operation.text # <<>>
    THEN RopeInsert(rope, operation.pos, operation.text)
  ELSE IF operation.type = "delete" /\ operation.len # 0
    THEN RopeDelete(rope, operation.pos, operation.len)
  ELSE RopeResult(FALSE, rope)

\* handleOperation(ws, message)
handleOperation(docsNow, readyState, ws, message) ==
  IF ~HasKey(docsNow, message.docId)
    THEN Handled(docsNow, <<Send(ws, ErrorFrame("Document not found"))>>)
  ELSE
    LET doc == Get(docsNow, message.docId)
        operation == message.operation
        applied == applyOperation(doc.rope, operation)
        doc1 == [doc EXCEPT !.rope = applied.text,
                            !.serverSeq = IncrementSeq(@),
                            !.ops = Append(@, operation)]
        docs1 == MapSet(docsNow, doc1)
    IN  IF applied.threw
          THEN Handled(docsNow,
                       <<Send(ws, ErrorFrame("Failed to apply operation"))>>)
          ELSE Handled(docs1,
                       <<Send(ws, AckFrame(operation, doc1.serverSeq))>>
                       \o broadcast(docs1, readyState, message.docId,
                                    OpFrame(operation, doc1.serverSeq), NoExclude))

\* handleCursor(_ws, message): the message itself goes to the others
handleCursor(docsNow, readyState, ws, message) ==
  Handled(docsNow,
          broadcast(docsNow, readyState, message.docId, message, message.clientId))

DisconnectFrame(clientId) == [type |-> "disconnect", clientId |-> clientId]

\* handleDisconnect(ws): the first roster entry of the first document that
\* holds this socket is removed, and the loops end there
handleDisconnect(docsNow, readyState, ws) ==
  LET holds == {d \in 1..Len(docsNow) :
                  \E c \in 1..Len(docsNow[d].clients) : docsNow[d].clients[c].ws = ws}
  IN  IF holds = {} THEN Handled(docsNow, <<>>)
      ELSE
        LET d == CHOOSE x \in holds : \A y \in holds : x <= y
            doc == docsNow[d]
            mine == {c \in 1..Len(doc.clients) : doc.clients[c].ws = ws}
            c == CHOOSE x \in mine : \A y \in mine : x <= y
            clientId == doc.clients[c].id
            doc1 == [doc EXCEPT !.clients = MapDelete(@, clientId)]
            docs1 == MapSet(docsNow, doc1)
            sends == broadcast(docs1, readyState, doc.id,
                               DisconnectFrame(clientId), NoExclude)
        IN  Handled(IF doc1.clients = <<>> THEN MapDelete(docs1, doc.id) ELSE docs1,
                    sends)

\* handleMessage(ws, message): the switch on message.type
handleMessage(docsNow, readyState, ws, message, generated) ==
  CASE message.type = "join" -> handleJoin(docsNow, readyState, ws, message, generated)
    [] message.type = "op" -> handleOperation(docsNow, readyState, ws, message)
    [] message.type = "cursor" -> handleCursor(docsNow, readyState, ws, message)
    [] message.type = "disconnect" -> handleDisconnect(docsNow, readyState, ws)
    [] OTHER -> Handled(docsNow, <<>>)

\* the 'message' listener of handleConnection: data that JSON.parse rejects
\* is answered with an error frame, anything else goes to handleMessage
onMessage(docsNow, readyState, ws, message, generated) ==
  IF message.type = "unparseable"
    THEN Handled(docsNow, <<Send(ws, ErrorFrame("Invalid message format"))>>)
    ELSE handleMessage(docsNow, readyState, ws, message, generated)

\* the 'close' listener of handleConnection; the socket is CLOSED by then
onClose(docsNow, readyState, ws) == handleDisconnect(docsNow, readyState, ws)

(***************************************************************************)
(* State.                                                                  *)
(***************************************************************************)
VARIABLES
  \* SpecT: a base string, two operations authored against it, and the two
  \* replicas of the convergence tests
  base, opA, opB, docA, docB, tpc,
  \* the server: CollabServer.docs, and the readyState of every socket the
  \* server has seen ("NONE" before its 'connection' event)
  docs, readyState,
  \* Spec: the event the server handled last and the sends it made for it
  event, out,
  \* Spec: per socket, a summary of the joined and op frames sent to it so
  \* far: how many joined frames (2 stands for two or more), the sequence
  \* number of the first joined frame and of the last joined or op frame, and
  \* whether every op frame followed its predecessor by exactly one
  seen,
  \* SpecSync: per browser the state of App, its Outbox and its Editor, and
  \* the frames in flight on its WebSocket in the two directions
  client, c2s, s2c,
  \* SpecClient: how many times the browser has lost its connection
  drops,
  \* SpecT: opA and opB as transform.ts rebases them against each other, and
  \* as rebase.ts does
  transformed, rebased,
  \* SpecT3: the operation of a third client and the third replica
  opC, docC,
  \* SpecRope: Rope.root, the string the same calls give by splicing, the
  \* last call with its outcome, and the number of calls made
  ropeRoot, plain, ropeCall, ropeCalls,
  \* SpecFenwick: the FenwickTree, the array of the deltas added per index,
  \* the last call with its outcome, and the number of calls made
  fenwick, deltas, fenCall, fenCalls,
  \* SpecShift: an operation, the tail it is rebased against, the outcome
  \* of buildShiftIndex on the tail, and the operation as
  \* transformAgainstTail and as transformAgainstOps rebase it
  shiftOp, shiftTail, shiftIndex, viaTail, viaFold,
  \* SpecConn: the CollabClient, the WebSockets it has created, the timeouts
  \* it has set, whether the page has called disconnect(), and the number of
  \* frames the page has asked the client to send
  collab, webSockets, timeouts, disconnectCalled, sendCalls

pvars == <<opC, docC>>
xvars == <<transformed, rebased>>
rvars == <<ropeRoot, plain, ropeCall, ropeCalls>>
fvars == <<fenwick, deltas, fenCall, fenCalls>>
hvars == <<shiftOp, shiftTail, shiftIndex, viaTail, viaFold>>
nvars == <<collab, webSockets, timeouts, disconnectCalled, sendCalls>>
tvars == <<base, opA, opB, docA, docB, tpc, xvars, pvars, rvars, fvars, hvars, nvars>>
svars == <<docs, readyState>>
evars == <<event, out, seen>>
cvars == <<client, c2s, s2c, drops>>
vars == <<tvars, svars, evars, cvars>>

(***************************************************************************)
(* SpecT: transform as a pure function.  Init draws the base string and    *)
(* two well-formed operations of distinct clients with positions inside    *)
(* the base; TransformBoth replays the convergence tests: replica A        *)
(* applies opB and then transform(opA, opB), replica B applies opA and     *)
(* then transform(opB, opA)  (test/e2e.test.ts).                           *)
(***************************************************************************)
Alphabet == <<"a", "b", "c", "d", "e", "f", "g", "h">>
GenericBases == {SubSeq(Alphabet, 1, n) : n \in 0..MaxBase}

TextsOfA == {<<"x">>, <<"x", "y">>}
TextsOfB == {<<"u">>, <<"u", "v">>}

WellFormedOps(s, texts, clientId) ==
  {InsertOp(p, t, clientId, 0) : p \in 0..Len(s), t \in texts}
  \cup {DeleteOp(p, l, clientId, 0) :
          <<p, l>> \in {pl \in (0..Len(s)) \X (1..Len(s)) : pl[1] + pl[2] <= Len(s)}}

GenericInputs ==
  {[base |-> s, opA |-> a, opB |-> b] :
     <<s, a, b>> \in UNION {
        UNION {{s} \X WellFormedOps(s, TextsOfA, ids[1])
                   \X WellFormedOps(s, TextsOfB, ids[2]) :
               ids \in {<<"A", "B">>, <<"B", "A">>}} :
        s \in GenericBases}}

\* The literal scenario of the two-client end-to-end test.
Hello == <<"h", "e", "l", "l", "o">>
SpaceWorld == <<" ", "w", "o", "r", "l", "d">>
Bang == <<"!">>
ScenarioInputs ==
  {[base |-> Hello,
    opA |-> InsertOp(5, SpaceWorld, "A", 1),
    opB |-> InsertOp(5, Bang, "B", 1)]}

NotRun == RopeResult(FALSE, <<>>)

\* the sockets of the model
WS == {1, 2}

NoEvent == [kind |-> "none"]
NotSeen == [joins |-> 0, first |-> 0, last |-> 0, inOrder |-> TRUE]

\* the server after its constructor, before any connection
ServerInit ==
  /\ docs = <<>>
  /\ readyState = [ws \in WS |-> "NONE"]

ServerIdle ==
  /\ ServerInit
  /\ event = NoEvent
  /\ out = <<>>
  /\ seen = [ws \in WS |-> NotSeen]

\* no browser is part of the run
NoBrowser ==
  /\ client = <<>>
  /\ c2s = <<>>
  /\ s2c = <<>>
  /\ drops = 0

\* neither transform has rebased the pair yet
NotRebased == [done |-> FALSE]
Rebased(a, b) == [done |-> TRUE, a |-> a, b |-> b]
NoneRebased ==
  /\ transformed = NotRebased
  /\ rebased = NotRebased

\* no pair of operations is transformed in the run
NoPair ==
  /\ base = <<>>
  /\ opA = InsertOp(0, <<>>, "A", 0)
  /\ opB = InsertOp(0, <<>>, "B", 0)
  /\ docA = NotRun
  /\ docB = NotRun
  /\ tpc = "off"
  /\ NoneRebased

\* no third replica is part of the run
NoThird ==
  /\ opC = InsertOp(0, <<>>, "C", 0)
  /\ docC = NotRun

NoCall == [name |-> "none"]

\* no rope is part of the run
NoRope ==
  /\ ropeRoot = Undefined
  /\ plain = <<>>
  /\ ropeCall = NoCall
  /\ ropeCalls = 0

\* no FenwickTree is part of the run
\* no shift index built, no page mounted
NotBuilt == [done |-> FALSE]
NoShift ==
  /\ shiftOp = NoCall
  /\ shiftTail = <<>>
  /\ shiftIndex = NotBuilt
  /\ viaTail = NotBuilt
  /\ viaFold = NotBuilt

NoConn ==
  /\ collab = NewCollabClient
  /\ webSockets = <<>>
  /\ timeouts = <<>>
  /\ disconnectCalled = FALSE
  /\ sendCalls = 0

NoFenwick ==
  /\ fenwick = NewFenwickTree(0)
  /\ deltas = <<>>
  /\ fenCall = NoCall
  /\ fenCalls = 0

InitT ==
  /\ \E in \in GenericInputs \cup ScenarioInputs :
       /\ base = in.base
       /\ opA = in.opA
       /\ opB = in.opB
  /\ docA = NotRun
  /\ docB = NotRun
  /\ tpc = "input"
  /\ NoneRebased
  /\ NoThird
  /\ NoRope
  /\ NoFenwick
  /\ NoShift
  /\ ServerIdle
  /\ NoBrowser
  /\ NoConn

\* a replica: apply `first`, then `second` unless the first application threw
Replay(s, first, second) ==
  LET r == ApplyToRope(s, first)
  IN  IF r.threw THEN r ELSE ApplyToRope(r.text, second)

TransformBoth ==
  /\ tpc = "input"
  /\ transformed' = Rebased(transform(opA, opB), transform(opB, opA))
  /\ docA' = Replay(base, opB, transform(opA, opB))
  /\ docB' = Replay(base, opA, transform(opB, opA))
  /\ tpc' = "done"
  /\ UNCHANGED <<base, opA, opB, rebased, pvars, rvars, fvars, svars, evars, cvars, hvars, nvars>>

\* the same pair in the hands of a browser: rebase.ts transforms each
\* operation against the other
RebaseBoth ==
  /\ ~rebased.done
  /\ rebased' = Rebased(rebaseTransform(opA, opB), rebaseTransform(opB, opA))
  /\ UNCHANGED <<base, opA, opB, docA, docB, tpc, transformed, pvars, rvars, fvars,
                 svars, evars, cvars, hvars, nvars>>

NextT ==
  \/ TransformBoth
  \/ RebaseBoth

SpecT == InitT /\ [][NextT]_vars

(***************************************************************************)
(* SpecT3: three concurrent operations.  Init draws the base string and    *)
(* one well-formed operation of each of the clients A, B and C;            *)
(* TransformThree replays the three-client convergence test: every replica *)
(* applies its own operation, then the second operation transformed        *)
(* against its own, then the third transformed against its own and against *)
(* the transformed second  (test/e2e.test.ts).                             *)
(***************************************************************************)
TextsOfC == {<<"w">>}

ThreeInputs ==
  {[base |-> s, opA |-> a, opB |-> b, opC |-> c] :
     <<s, a, b, c>> \in UNION {
        {s} \X WellFormedOps(s, TextsOfA, "A")
            \X WellFormedOps(s, TextsOfB, "B")
            \X WellFormedOps(s, TextsOfC, "C") :
        s \in GenericBases}}

InitT3 ==
  /\ \E in \in ThreeInputs :
       /\ base = in.base
       /\ opA = in.opA
       /\ opB = in.opB
       /\ opC = in.opC
  /\ docA = NotRun
  /\ docB = NotRun
  /\ docC = NotRun
  /\ tpc = "input"
  /\ NoneRebased
  /\ NoRope
  /\ NoFenwick
  /\ NoShift
  /\ ServerIdle
  /\ NoBrowser
  /\ NoConn

\* a replica of three operations: apply them in turn until one throws
Replay3(s, first, second, third) ==
  LET r == Replay(s, first, second)
  IN  IF r.threw THEN r ELSE ApplyToRope(r.text, third)

\* the replica of the author of `own`, which takes `second` and then `third`
ReplicaOf(own, second, third) ==
  LET second1 == transform(second, own)
      third1 == transform(third, own)
      third2 == transform(third1, second1)
  IN  Replay3(base, own, second1, third2)

TransformThree ==
  /\ tpc = "input"
  /\ docA' = ReplicaOf(opA, opB, opC)
  /\ docB' = ReplicaOf(opB, opA, opC)
  /\ docC' = ReplicaOf(opC, opA, opB)
  /\ tpc' = "done"
  /\ UNCHANGED <<base, opA, opB, opC, xvars, rvars, fvars, svars, evars, cvars, hvars, nvars>>

NextT3 == TransformThree

SpecT3 == InitT3 /\ [][NextT3]_vars

(***************************************************************************)
(* SpecRope: a Rope under its callers.  Init constructs the rope from a    *)
(* text; every step is one call of insert, delete or substring, with       *)
(* arguments in range and out of range.  plain is the string the same      *)
(* mutations give by splicing: a call whose arguments are in range splices *)
(* it, any other call leaves it alone.                                     *)
(***************************************************************************)
RopeTexts == {SubSeq(Alphabet, 1, n) : n \in 0..MaxRopeText}
InsertedTexts == {<<>>, <<"x">>}

InitRope ==
  /\ \E text \in RopeTexts :
       /\ ropeRoot = NewRope(text)
       /\ plain = text
  /\ ropeCall = NoCall
  /\ ropeCalls = 0
  /\ NoPair
  /\ NoThird
  /\ NoFenwick
  /\ NoShift
  /\ ServerIdle
  /\ NoBrowser
  /\ NoConn

\* the positions a caller tries: every position of the text, and one
\* before and one after
Positions == -1..(ropeLength(ropeRoot) + 1)

Insert ==
  /\ ropeCalls < MaxCalls
  /\ \E pos \in Positions, text \in InsertedTexts :
       /\ LET r == insert(ropeRoot, pos, text)
          IN  /\ ropeRoot' = r.root
              /\ ropeCall' = [name |-> "insert", pos |-> pos, text |-> text,
                              threw |-> r.threw]
       /\ plain' = IF 0 <= pos /\ pos <= Len(plain)
                     THEN Slice(plain, 0, pos) \o text \o SliceFrom(plain, pos)
                     ELSE plain
  /\ ropeCalls' = ropeCalls + 1
  /\ UNCHANGED <<base, opA, opB, docA, docB, tpc, xvars, pvars, fvars, svars, evars, cvars, hvars, nvars>>

Delete ==
  /\ ropeCalls < MaxCalls
  /\ \E pos \in Positions, len \in 0..(ropeLength(ropeRoot) + 1) :
       /\ LET r == delete(ropeRoot, pos, len)
          IN  /\ ropeRoot' = r.root
              /\ ropeCall' = [name |-> "delete", pos |-> pos, len |-> len,
                              threw |-> r.threw]
       /\ plain' = IF 0 <= pos /\ pos + len <= Len(plain)
                     THEN Slice(plain, 0, pos) \o SliceFrom(plain, pos + len)
                     ELSE plain
  /\ ropeCalls' = ropeCalls + 1
  /\ UNCHANGED <<base, opA, opB, docA, docB, tpc, xvars, pvars, fvars, svars, evars, cvars, hvars, nvars>>

Substring ==
  /\ ropeCalls < MaxCalls
  /\ \E start \in Positions, end \in Positions :
       LET r == substring(ropeRoot, start, end)
       IN  ropeCall' = [name |-> "substring", start |-> start, end |-> end,
                        threw |-> r.threw, value |-> r.value]
  /\ ropeCalls' = ropeCalls + 1
  /\ UNCHANGED <<ropeRoot, plain>>
  /\ UNCHANGED <<base, opA, opB, docA, docB, tpc, xvars, pvars, fvars, svars, evars, cvars, hvars, nvars>>

NextRope ==
  \/ Insert
  \/ Delete
  \/ Substring

SpecRope == InitRope /\ [][NextRope]_vars

(***************************************************************************)
(* SpecFenwick: a FenwickTree under its callers.  Init constructs a tree   *)
(* of some size; every step is one call of update or query, with an index  *)
(* in range or out of range.  deltas is the plain array the updates add    *)
(* to: deltas[i] is the sum of the deltas added at index i.                *)
(***************************************************************************)
DeltaValues == {-1, 1, 2}

InitFenwick ==
  /\ \E size \in 0..MaxSize :
       /\ fenwick = NewFenwickTree(size)
       /\ deltas = [i \in 0..(size - 1) |-> 0]
  /\ fenCall = NoCall
  /\ fenCalls = 0
  /\ NoPair
  /\ NoThird
  /\ NoRope
  /\ NoShift
  /\ ServerIdle
  /\ NoBrowser
  /\ NoConn

\* the indices a caller tries: every index of the array, and some outside
Indices == -2..(fenwick.size + 1)

Update ==
  /\ fenCalls < MaxFenCalls
  /\ \E idx \in Indices, delta \in DeltaValues :
       /\ LET r == update(fenwick, idx, delta)
          IN  /\ fenwick' = r.ft
              /\ fenCall' = [name |-> "update", idx |-> idx, delta |-> delta,
                             threw |-> r.threw]
       /\ deltas' = IF 0 <= idx /\ idx < fenwick.size
                      THEN [deltas EXCEPT ![idx] = @ + delta]
                      ELSE deltas
  /\ fenCalls' = fenCalls + 1
  /\ UNCHANGED <<base, opA, opB, docA, docB, tpc, xvars, pvars, rvars, svars, evars, cvars, hvars, nvars>>

Query ==
  /\ fenCalls < MaxFenCalls
  /\ \E idx \in Indices :
       fenCall' = [name |-> "query", idx |-> idx, value |-> query(fenwick, idx)]
  /\ fenCalls' = fenCalls + 1
  /\ UNCHANGED <<fenwick, deltas>>
  /\ UNCHANGED <<base, opA, opB, docA, docB, tpc, xvars, pvars, rvars, svars, evars, cvars, hvars, nvars>>

NextFenwick ==
  \/ Update
  \/ Query

SpecFenwick == InitFenwick /\ [][NextFenwick]_vars

(***************************************************************************)
(* SpecShift: the TransformEngine as a pure function.  Init draws an       *)
(* operation and a tail of operations, at small positions and at the       *)
(* positions around the size buildShiftIndex gives its tree; the steps     *)
(* build the shift index of the tail and rebase the operation against the  *)
(* tail, through the index and by the pairwise fold of transform.ts.       *)
(***************************************************************************)
ShiftPositions ==
  {1, 2, DefaultMaxPos - 1, DefaultMaxPos, DefaultMaxPos + 1,
   DefaultMaxPos + MaxPosMargin + 1}

\* the operations of a tail: inserts, one of them of no text, and deletes
TailOps ==
  {InsertOp(pos, <<"x">>, "B", 0) : pos \in ShiftPositions}
    \cup {InsertOp(1, <<>>, "B", 0)}
    \cup {DeleteOp(pos, 1, "B", 0) : pos \in ShiftPositions}

\* the operations rebased: at the start of the text too
ShiftOps ==
  {InsertOp(pos, <<"y">>, "A", 0) : pos \in ShiftPositions \cup {0}}
    \cup {DeleteOp(pos, 1, "A", 0) : pos \in ShiftPositions \cup {0}}

InitShift ==
  /\ shiftOp \in ShiftOps
  /\ \E n \in 0..MaxTail : shiftTail \in [1..n -> TailOps]
  /\ shiftIndex = NotBuilt
  /\ viaTail = NotBuilt
  /\ viaFold = NotBuilt
  /\ NoPair
  /\ NoThird
  /\ NoRope
  /\ NoFenwick
  /\ ServerIdle
  /\ NoBrowser
  /\ NoConn

\* engine.buildShiftIndex(tail, 0): whether it threw, and the size of the
\* tree it constructed
BuildShiftIndex ==
  /\ ~shiftIndex.done
  /\ shiftIndex' = [done |-> TRUE,
                    threw |-> buildShiftIndex(shiftTail, 0).threw,
                    size |-> buildShiftIndex(shiftTail, 0).ft.size]
  /\ UNCHANGED <<shiftOp, shiftTail, viaTail, viaFold>>
  /\ UNCHANGED <<base, opA, opB, docA, docB, tpc, xvars, pvars, rvars, fvars,
                 nvars, svars, evars, cvars>>

\* engine.transformAgainstTail(op, tail)
TransformAgainstTail ==
  /\ ~viaTail.done
  /\ viaTail' = [done |-> TRUE, result |-> transformAgainstTail(shiftOp, shiftTail)]
  /\ UNCHANGED <<shiftOp, shiftTail, shiftIndex, viaFold>>
  /\ UNCHANGED <<base, opA, opB, docA, docB, tpc, xvars, pvars, rvars, fvars,
                 nvars, svars, evars, cvars>>

\* transformAgainstOps(op, tail)
TransformAgainstOps ==
  /\ ~viaFold.done
  /\ viaFold' = [done |-> TRUE, op |-> transformAgainstOps(shiftOp, shiftTail)]
  /\ UNCHANGED <<shiftOp, shiftTail, shiftIndex, viaTail>>
  /\ UNCHANGED <<base, opA, opB, docA, docB, tpc, xvars, pvars, rvars, fvars,
                 nvars, svars, evars, cvars>>

NextShift ==
  \/ BuildShiftIndex
  \/ TransformAgainstTail
  \/ TransformAgainstOps

SpecShift == InitShift /\ [][NextShift]_vars

(***************************************************************************)
(* SpecConn: the connection of one CollabClient.  The page mounts and      *)
(* calls connect(); a socket opens; a socket's close event arrives, because *)
(* the connection was lost or because close() was called on it, and runs   *)
(* the onclose handler; a pending timeout fires and runs its callback; the *)
(* page unmounts and calls disconnect().                                   *)
(***************************************************************************)
InitConn ==
  /\ collab = NewCollabClient
  /\ webSockets = <<>>
  /\ timeouts = <<>>
  /\ disconnectCalled = FALSE
  /\ sendCalls = 0
  /\ NoPair
  /\ NoThird
  /\ NoRope
  /\ NoFenwick
  /\ NoShift
  /\ ServerIdle
  /\ NoBrowser

ThePage == Page(collab, webSockets, timeouts)

Becomes(p) ==
  /\ collab' = p.cc
  /\ webSockets' = p.webSockets
  /\ timeouts' = p.timeouts

\* the effect of App: client.connect()
Mount ==
  /\ webSockets = <<>>
  /\ ~disconnectCalled
  /\ Becomes(connect(ThePage))
  /\ UNCHANGED <<disconnectCalled, sendCalls, hvars>>
  /\ UNCHANGED <<base, opA, opB, docA, docB, tpc, xvars, pvars, rvars, fvars,
                 svars, evars, cvars>>

\* the open event of a socket: ws.onopen sends the join frame
SocketOpen ==
  /\ \E ws \in DOMAIN webSockets :
       /\ webSockets[ws].readyState = "CONNECTING"
       /\ Becomes(send(Page(collab,
                             [webSockets EXCEPT ![ws].readyState = "OPEN"],
                             timeouts),
                        "join"))
  /\ UNCHANGED <<disconnectCalled, sendCalls, hvars>>
  /\ UNCHANGED <<base, opA, opB, docA, docB, tpc, xvars, pvars, rvars, fvars,
                 svars, evars, cvars>>

\* the page has a frame to send: client.sendOperation(op), sendCursor(x, y)
PageSend ==
  /\ webSockets # <<>>
  /\ sendCalls < MaxSends
  /\ \E type \in {"operation", "cursor"} : Becomes(send(ThePage, type))
  /\ sendCalls' = sendCalls + 1
  /\ UNCHANGED <<disconnectCalled, hvars>>
  /\ UNCHANGED <<base, opA, opB, docA, docB, tpc, xvars, pvars, rvars, fvars,
                 svars, evars, cvars>>

\* the close event of a socket: ws.onclose
SocketClose ==
  /\ \E ws \in DOMAIN webSockets :
       /\ webSockets[ws].readyState # "CLOSED"
       /\ Becomes(scheduleReconnect(
            Page(collab, [webSockets EXCEPT ![ws].readyState = "CLOSED"],
                 timeouts)))
  /\ UNCHANGED <<disconnectCalled, sendCalls, hvars>>
  /\ UNCHANGED <<base, opA, opB, docA, docB, tpc, xvars, pvars, rvars, fvars,
                 svars, evars, cvars>>

\* a timeout of scheduleReconnect fires: this.connect()
TimeoutFires ==
  /\ Len(webSockets) < MaxSockets
  /\ \E id \in DOMAIN timeouts :
       /\ timeouts[id] = "pending"
       /\ Becomes(connect(
            Page(collab, webSockets, [timeouts EXCEPT ![id] = "fired"])))
  /\ UNCHANGED <<disconnectCalled, sendCalls, hvars>>
  /\ UNCHANGED <<base, opA, opB, docA, docB, tpc, xvars, pvars, rvars, fvars,
                 svars, evars, cvars>>

\* the cleanup of the effect of App: client.disconnect()
Unmount ==
  /\ webSockets # <<>>
  /\ ~disconnectCalled
  /\ Becomes(disconnect(ThePage))
  /\ disconnectCalled' = TRUE
  /\ UNCHANGED <<sendCalls, hvars>>
  /\ UNCHANGED <<base, opA, opB, docA, docB, tpc, xvars, pvars, rvars, fvars,
                 svars, evars, cvars>>

NextConn ==
  \/ Mount
  \/ SocketOpen
  \/ PageSend
  \/ SocketClose
  \/ TimeoutFires
  \/ Unmount

SpecConn == InitConn /\ [][NextConn]_vars

(***************************************************************************)
(* Spec: the server under arbitrary connections.  Every step is one event  *)
(* of the server's event loop, handled to completion: a 'connection', a    *)
(* 'message' with any frame of EnvMessages, or a 'close'.                  *)
(***************************************************************************)
\* the operations a connection may submit: inserts and deletes that are in
\* bounds of some documents and out of bounds of others, and zero-width ones
EnvOps ==
  {InsertOp(0, <<"x">>, "A", 0),
   InsertOp(2, <<"x">>, "A", 1),
   InsertOp(2, <<>>, "A", 0),
   DeleteOp(0, 1, "B", 1),
   DeleteOp(2, 0, "B", 0)}

EnvMessages ==
  {[type |-> "join", docId |-> "", clientId |-> c] : c \in {"", "A", "B"}}
  \cup {[type |-> "op", docId |-> "default", operation |-> o] : o \in EnvOps}
  \cup {[type |-> "cursor", docId |-> "default", clientId |-> "A"]}
  \cup {[type |-> "disconnect"]}
  \cup {[type |-> "unparseable"]}

\* what generateClientId() can return: an id no roster holds
GeneratedIds == {"G"}
InSomeRoster(docsNow, clientId) ==
  \E d \in 1..Len(docsNow) : HasKey(docsNow[d].clients, clientId)

\* the summary of the frames sent to a socket, after one more frame
SeenFrame(s, frame) ==
  IF frame.type = "joined"
    THEN IF s.joins = 0
           THEN [joins |-> 1, first |-> frame.seq, last |-> frame.seq,
                 inOrder |-> s.inOrder]
           ELSE [joins |-> 2, first |-> 0, last |-> 0, inOrder |-> FALSE]
  ELSE IF frame.type = "op" /\ s.joins < 2
    THEN [s EXCEPT !.last = frame.serverSeq,
                   !.inOrder = s.inOrder /\ s.joins = 1
                               /\ frame.serverSeq = s.last + 1]
  ELSE s

RECURSIVE SeenSends(_, _)
SeenSends(sn, sends) ==
  IF sends = <<>> THEN sn
  ELSE SeenSends([sn EXCEPT ![Head(sends).to] = SeenFrame(@, Head(sends).frame)],
                 Tail(sends))

Connection(ws) ==
  /\ readyState[ws] = "NONE"
  /\ readyState' = [readyState EXCEPT ![ws] = "OPEN"]
  /\ event' = [kind |-> "connection", ws |-> ws]
  /\ out' = <<>>
  /\ UNCHANGED <<docs, seen, tvars, cvars>>

\* the cap on serverSeq: no op is taken for a document that has reached it
BelowCap(docsNow, message) ==
  (message.type = "op" /\ HasKey(docsNow, message.docId)) =>
     Get(docsNow, message.docId).serverSeq < MaxSeq

Message(ws, message) ==
  /\ readyState[ws] = "OPEN"
  /\ BelowCap(docs, message)
  /\ \E generated \in GeneratedIds :
       /\ ~InSomeRoster(docs, generated)
       /\ LET h == onMessage(docs, readyState, ws, message, generated)
          IN  /\ docs' = h.docs
              /\ out' = h.sends
              /\ seen' = SeenSends(seen, h.sends)
  /\ event' = [kind |-> "message", ws |-> ws, message |-> message]
  /\ UNCHANGED <<readyState, tvars, cvars>>

Close(ws) ==
  /\ readyState[ws] = "OPEN"
  /\ readyState' = [readyState EXCEPT ![ws] = "CLOSED"]
  /\ LET h == onClose(docs, readyState', ws)
     IN  /\ docs' = h.docs
         /\ out' = h.sends
         /\ seen' = SeenSends(seen, h.sends)
  /\ event' = [kind |-> "close", ws |-> ws]
  /\ UNCHANGED <<tvars, cvars>>

\* the variables of the pure functions, which play no part
NoTransformRun ==
  /\ NoPair
  /\ NoThird
  /\ NoRope
  /\ NoFenwick
  /\ NoShift

Init ==
  /\ ServerIdle
  /\ NoTransformRun
  /\ NoBrowser
  /\ NoConn

Next ==
  \/ \E ws \in WS : Connection(ws)
  \/ \E ws \in WS, message \in EnvMessages : Message(ws, message)
  \/ \E ws \in WS : Close(ws)

Spec == Init /\ [][Next]_vars

(***************************************************************************)
(* The browser.  rebase.ts, outbox.ts, SimpleEditor.tsx, connection.ts and *)
(* App.tsx as operators on the record `a` that holds one browser's state:  *)
(*   stableClientId  localStorage 'stableClientId'                         *)
(*   clientId        clientIdRef                                           *)
(*   connected, doc  the React state of App                                *)
(*   serverSeq       serverSeqRef                                          *)
(*   outbox, nextLocalSeq   Outbox.pending and Outbox.nextLocalSeq         *)
(*   queue, waiting  pendingOpsQueue and isWaitingForAck                   *)
(*   value           the text of the Editor (value and lastValueRef)       *)
(* A handler yields the record after it and the frames it sent; `open`     *)
(* says whether the browser's WebSocket is OPEN.                           *)
(***************************************************************************)
\* an Outbox that never forgets
removeUntil_keepAll(pending, seq) == pending

\* outbox.ts: Outbox.removeUntil(seq)
removeUntil(pending, seq) ==
  LET keep(op) == op.clientSeq > seq
  IN  SelectSeq(pending, keep)

\* SimpleEditor.tsx: the effect that follows the initialDoc prop.  The Editor
\* is mounted while App is connected, with initialDoc as its first value;
\* later the effect runs when the prop has changed.
EditorSync(mounted, oldDoc, initialDoc, value) ==
  IF ~mounted THEN initialDoc
  ELSE IF oldDoc # initialDoc /\ value # initialDoc THEN initialDoc
  ELSE value

\* SimpleEditor.tsx: the callback given to onApplyOperation, called as
\* (pos, text) for an insert and as (pos, undefined, length) for a delete
EditorApply(prev, pos, textDefined, text, length) ==
  IF textDefined
    THEN Slice(prev, 0, pos) \o text \o SliceFrom(prev, pos + length)
    ELSE Slice(prev, 0, pos)

AppResult(a, sends) == [app |-> a, sends |-> sends]

\* the browser before App has connected
AppInit(stableClientId) ==
  [stableClientId |-> stableClientId, clientId |-> "", connected |-> FALSE,
   doc |-> <<>>, serverSeq |-> 0, outbox |-> <<>>, nextLocalSeq |-> 0,
   queue |-> <<>>, waiting |-> FALSE, value |-> <<>>]

\* connection.ts: the join sent by ws.onopen (it carries no docId)
ClientJoin(a) == [type |-> "join", docId |-> "", clientId |-> a.stableClientId]

\* connection.ts: sendOperation(op) through send(msg), which drops the frame
\* unless the socket is OPEN
sendOperation(open, op) ==
  IF open THEN <<[type |-> "op", docId |-> "default", operation |-> op]>>
  ELSE <<>>

\* App.tsx: sendNextOperation()
sendNextOperation(a, open) ==
  IF a.queue = <<>> THEN AppResult([a EXCEPT !.waiting = FALSE], <<>>)
  ELSE LET op == Head(a.queue)
       IN  AppResult([a EXCEPT !.outbox = Append(@, op), !.waiting = TRUE],
                     sendOperation(open, op))

\* handleChange that sends whether or not an ack is awaited
handleChange_eager(a, open, pos, text, isDelete, length) ==
  LET op == IF isDelete THEN DeleteOp(pos, length, a.clientId, a.nextLocalSeq)
            ELSE InsertOp(pos, text, a.clientId, a.nextLocalSeq)
      a1 == [a EXCEPT !.nextLocalSeq = @ + 1, !.queue = Append(@, op)]
  IN  sendNextOperation(a1, open)

\* App.tsx: handleChange(pos, text, isDelete, length)
handleChange(a, open, pos, text, isDelete, length) ==
  LET op == IF isDelete THEN DeleteOp(pos, length, a.clientId, a.nextLocalSeq)
            ELSE InsertOp(pos, text, a.clientId, a.nextLocalSeq)
      a1 == [a EXCEPT !.nextLocalSeq = @ + 1, !.queue = Append(@, op)]
  IN  IF ~a1.waiting THEN sendNextOperation(a1, open) ELSE AppResult(a1, <<>>)

\* onJoined that starts over with a new Outbox
onJoined_newOutbox(a, id, seq, initialDoc) ==
  [a EXCEPT !.clientId = id, !.doc = initialDoc, !.serverSeq = seq,
            !.connected = TRUE,
            !.value = EditorSync(a.connected, a.doc, initialDoc, a.value),
            !.outbox = <<>>, !.nextLocalSeq = 0]

\* App.tsx: onJoined(id, seq, initialDoc, clients)
onJoined(a, id, seq, initialDoc) ==
  [a EXCEPT !.clientId = id, !.doc = initialDoc, !.serverSeq = seq,
            !.connected = TRUE,
            !.value = EditorSync(a.connected, a.doc, initialDoc, a.value)]

\* onOperation without the test for the browser's own client id
onOperation_applyOwn(a, op) ==
  [a EXCEPT
     !.outbox = [i \in 1..Len(a.outbox) |-> rebaseOperation(a.outbox[i], <<op>>)],
     !.value = IF ~a.connected THEN @
               ELSE IF op.type = "insert" /\ op.text # <<>>
                 THEN EditorApply(@, op.pos, TRUE, op.text, 0)
               ELSE IF op.type = "delete" /\ op.len # 0
                 THEN EditorApply(@, op.pos, FALSE, <<>>, op.len)
               ELSE @]

\* App.tsx: onOperation(op)
onOperation(a, op) ==
  IF op.clientId = a.clientId THEN a
  ELSE [a EXCEPT
          !.outbox = [i \in 1..Len(a.outbox) |-> rebaseOperation(a.outbox[i], <<op>>)],
          !.value = IF ~a.connected THEN @
                    ELSE IF op.type = "insert" /\ op.text # <<>>
                      THEN EditorApply(@, op.pos, TRUE, op.text, 0)
                    ELSE IF op.type = "delete" /\ op.len # 0
                      THEN EditorApply(@, op.pos, FALSE, <<>>, op.len)
                    ELSE @]

\* App.tsx: onAck(seq)
onAck(a, open, seq) ==
  LET a1 == [a EXCEPT
               !.outbox = removeUntil(@, seq),
               !.queue = IF Len(@) > 0 /\ Head(@).clientSeq = seq
                           THEN Tail(@) ELSE @,
               !.waiting = FALSE]
  IN  sendNextOperation(a1, open)

\* connection.ts: CollabClient.handleMessage(msg)
clientHandleMessage(a, open, msg) ==
  CASE msg.type = "joined" ->
         AppResult(onJoined(a, msg.clientId, msg.seq, msg.doc), <<>>)
    [] msg.type = "op" -> AppResult(onOperation(a, msg.operation), <<>>)
    [] msg.type = "ack" -> onAck(a, open, msg.clientSeq)
    [] OTHER -> AppResult(a, <<>>)

\* SimpleEditor.tsx: handleInput, the user having turned the text into
\* newValue: the change is found by stripping the common prefix and suffix
\* and is reported as a delete, an insert, or a delete followed by an insert
handleInput(a, open, newValue) ==
  LET oldValue == a.value
      shorter == Min(Len(oldValue), Len(newValue))
      i == Cardinality({k \in 1..shorter :
                          \A j \in 1..k : oldValue[j] = newValue[j]})
      t == Cardinality({k \in 1..(shorter - i) :
                          \A j \in 0..(k - 1) :
                            oldValue[Len(oldValue) - j] = newValue[Len(newValue) - j]})
      deletedCount == Len(oldValue) - t - i
      insertedText == Slice(newValue, i, Len(newValue) - t)
      a1 == [a EXCEPT !.value = newValue]
  IN  IF oldValue = newValue THEN AppResult(a, <<>>)
      ELSE IF deletedCount > 0 /\ insertedText # <<>>
        THEN LET r1 == handleChange(a1, open, i, <<>>, TRUE, deletedCount)
                 r2 == handleChange(r1.app, open, i, insertedText, FALSE, 0)
             IN  AppResult(r2.app, r1.sends \o r2.sends)
      ELSE IF deletedCount > 0
        THEN handleChange(a1, open, i, <<>>, TRUE, deletedCount)
      ELSE IF insertedText # <<>>
        THEN handleChange(a1, open, i, insertedText, FALSE, 0)
      ELSE AppResult(a1, <<>>)

(***************************************************************************)
(* SpecSync: three browsers, the server between them, and a FIFO channel   *)
(* per socket and direction.  A browser connects and joins the document    *)
(* 'default' under its stable id; once joined its user types a character   *)
(* of their own or removes one.  MaxEdits bounds the edits of all users.   *)
(***************************************************************************)
Browsers == {"A", "B", "C"}

\* the socket of a browser
SocketOf == [c \in Browsers |-> CASE c = "A" -> 1 [] c = "B" -> 2 [] c = "C" -> 3]
Sockets == {SocketOf[c] : c \in Browsers}

\* the character a user types
KeyOf == [c \in Browsers |-> CASE c = "A" -> "a" [] c = "B" -> "b" [] c = "C" -> "c"]

\* the texts one keystroke away: a character typed anywhere, or one removed
Keystrokes(c, value) ==
  {Slice(value, 0, p) \o <<KeyOf[c]>> \o SliceFrom(value, p) : p \in 0..Len(value)}
  \cup {Slice(value, 0, p - 1) \o SliceFrom(value, p) : p \in 1..Len(value)}

RECURSIVE SumOver(_, _)
SumOver(f, S) ==
  IF S = {} THEN 0
  ELSE LET x == CHOOSE y \in S : TRUE IN f[x] + SumOver(f, S \ {x})

\* how many operations the users have made so far
Edits == SumOver([c \in DOMAIN client |-> client[c].nextLocalSeq], DOMAIN client)

\* the frames a server handler sent, appended to the channels they go to;
\* a frame for a socket that no browser of the model holds is not kept
RECURSIVE Deliver(_, _)
Deliver(channels, sends) ==
  IF sends = <<>> THEN channels
  ELSE IF Head(sends).to \in DOMAIN channels
    THEN Deliver([channels EXCEPT ![Head(sends).to] = Append(@, Head(sends).frame)],
                 Tail(sends))
  ELSE Deliver(channels, Tail(sends))

InitSync ==
  /\ docs = <<>>
  /\ readyState = [ws \in Sockets |-> "NONE"]
  /\ client = [c \in Browsers |-> AppInit(c)]
  /\ c2s = [ws \in Sockets |-> <<>>]
  /\ s2c = [ws \in Sockets |-> <<>>]
  /\ drops = 0
  /\ event = NoEvent
  /\ out = <<>>
  /\ seen = [ws \in Sockets |-> NotSeen]
  /\ NoTransformRun
  /\ NoConn

\* connection.ts connect(): the socket opens, the server gets its
\* 'connection' event and ws.onopen sends the join
Connect(c) ==
  /\ readyState[SocketOf[c]] = "NONE"
  /\ readyState' = [readyState EXCEPT ![SocketOf[c]] = "OPEN"]
  /\ c2s' = [c2s EXCEPT ![SocketOf[c]] = Append(@, ClientJoin(client[c]))]
  /\ UNCHANGED <<docs, client, s2c, drops, tvars, evars>>

\* the server takes the next frame of a socket
ServerReceive(c) ==
  /\ c2s[SocketOf[c]] # <<>>
  /\ \E generated \in GeneratedIds :
       /\ ~InSomeRoster(docs, generated)
       /\ LET h == onMessage(docs, readyState, SocketOf[c],
                             Head(c2s[SocketOf[c]]), generated)
          IN  /\ docs' = h.docs
              /\ s2c' = Deliver(s2c, h.sends)
  /\ c2s' = [c2s EXCEPT ![SocketOf[c]] = Tail(@)]
  /\ UNCHANGED <<readyState, client, drops, tvars, evars>>

\* the browser takes the next frame of its socket (ws.onmessage)
ClientReceive(c) ==
  /\ s2c[SocketOf[c]] # <<>>
  /\ LET r == clientHandleMessage(client[c], readyState[SocketOf[c]] = "OPEN",
                                  Head(s2c[SocketOf[c]]))
     IN  /\ client' = [client EXCEPT ![c] = r.app]
         /\ c2s' = [c2s EXCEPT ![SocketOf[c]] = @ \o r.sends]
  /\ s2c' = [s2c EXCEPT ![SocketOf[c]] = Tail(@)]
  /\ UNCHANGED <<docs, readyState, drops, tvars, evars>>

\* the user of a browser makes one of the given edits in the Editor
TypeOneOf(c, newValues) ==
  /\ client[c].connected
  /\ Edits < MaxEdits
  /\ \E newValue \in newValues :
       LET r == handleInput(client[c], readyState[SocketOf[c]] = "OPEN", newValue)
       IN  /\ client' = [client EXCEPT ![c] = r.app]
           /\ c2s' = [c2s EXCEPT ![SocketOf[c]] = @ \o r.sends]
  /\ UNCHANGED <<docs, readyState, s2c, drops, tvars, evars>>

\* the user types a character anywhere or removes one
Type(c) == TypeOneOf(c, Keystrokes(c, client[c].value))

\* the texts one keystroke at the start of the text away
KeystrokesAtStart(c, value) ==
  {<<KeyOf[c]>> \o value} \cup {Tail(value) : v \in {value} \ {<<>>}}

\* the user types a character in front of the text or removes the first one
TypeAtStart(c) == TypeOneOf(c, KeystrokesAtStart(c, client[c].value))

NextSync ==
  \/ \E c \in Browsers : Connect(c)
  \/ \E c \in Browsers : ServerReceive(c)
  \/ \E c \in Browsers : ClientReceive(c)
  \/ \E c \in Browsers : Type(c)

SpecSync == InitSync /\ [][NextSync]_vars

(***************************************************************************)
(* SpecClient: one browser, the server, and a peer that speaks the         *)
(* protocol on a socket of its own.  The browser connects, joins, types,   *)
(* loses its connection and reconnects (connection.ts: ws.onclose,         *)
(* scheduleReconnect); the peer joins as "B" and sends ops the server      *)
(* handles at once.  MaxEdits bounds the browser's edits, MaxSeq the       *)
(* serverSeq a peer op is taken at, MaxDrops the connection losses.        *)
(***************************************************************************)
TheBrowser == "A"
PeerSocket == 2

PeerOps == {InsertOp(0, <<"b">>, "B", 0), DeleteOp(0, 1, "B", 0)}

InitClient ==
  /\ docs = <<>>
  /\ readyState = [ws \in {SocketOf[TheBrowser], PeerSocket} |-> "NONE"]
  /\ client = [c \in {TheBrowser} |-> AppInit(c)]
  /\ c2s = [ws \in {SocketOf[TheBrowser]} |-> <<>>]
  /\ s2c = [ws \in {SocketOf[TheBrowser]} |-> <<>>]
  /\ drops = 0
  /\ event = NoEvent
  /\ out = <<>>
  /\ seen = <<>>
  /\ NoTransformRun
  /\ NoConn

\* the connection is lost: the frames in flight are gone, the server runs
\* its 'close' handler and the browser's ws.onclose schedules a reconnect
Drop(c) ==
  /\ readyState[SocketOf[c]] = "OPEN"
  /\ drops < MaxDrops
  /\ drops' = drops + 1
  /\ readyState' = [readyState EXCEPT ![SocketOf[c]] = "CLOSED"]
  /\ LET h == onClose(docs, readyState', SocketOf[c])
     IN  /\ docs' = h.docs
         /\ s2c' = [Deliver(s2c, h.sends) EXCEPT ![SocketOf[c]] = <<>>]
  /\ c2s' = [c2s EXCEPT ![SocketOf[c]] = <<>>]
  /\ UNCHANGED <<client, tvars, evars>>

\* the reconnect timer fires: connect() opens a new WebSocket, whose onopen
\* sends the join
Reconnect(c) ==
  /\ readyState[SocketOf[c]] = "CLOSED"
  /\ readyState' = [readyState EXCEPT ![SocketOf[c]] = "OPEN"]
  /\ c2s' = [c2s EXCEPT ![SocketOf[c]] = Append(@, ClientJoin(client[c]))]
  /\ UNCHANGED <<docs, client, s2c, drops, tvars, evars>>

\* the peer connects and joins the document as "B"
PeerJoin ==
  /\ readyState[PeerSocket] = "NONE"
  /\ readyState' = [readyState EXCEPT ![PeerSocket] = "OPEN"]
  /\ \E generated \in GeneratedIds :
       LET h == onMessage(docs, readyState', PeerSocket,
                          [type |-> "join", docId |-> "", clientId |-> "B"],
                          generated)
       IN  /\ docs' = h.docs
           /\ s2c' = Deliver(s2c, h.sends)
  /\ UNCHANGED <<client, c2s, drops, tvars, evars>>

\* the peer sends an op
PeerOp(o) ==
  /\ readyState[PeerSocket] = "OPEN"
  /\ HasKey(docs, "default")
  /\ Get(docs, "default").serverSeq < MaxSeq
  /\ \E generated \in GeneratedIds :
       LET h == onMessage(docs, readyState, PeerSocket,
                          [type |-> "op", docId |-> "default", operation |-> o],
                          generated)
       IN  /\ docs' = h.docs
           /\ s2c' = Deliver(s2c, h.sends)
  /\ UNCHANGED <<readyState, client, c2s, drops, tvars, evars>>

NextClient ==
  \/ Connect(TheBrowser)
  \/ ServerReceive(TheBrowser)
  \/ ClientReceive(TheBrowser)
  \/ TypeAtStart(TheBrowser)
  \/ Drop(TheBrowser)
  \/ Reconnect(TheBrowser)
  \/ PeerJoin
  \/ \E o \in PeerOps : PeerOp(o)

SpecClient == InitClient /\ [][NextClient]_vars

\* SpecClient with the scheduling the code relies on: a frame that has
\* arrived is handled (the 'message' events of the two event loops), the
\* socket of a mounted page opens, and the reconnect timer fires.  The
\* connection is lost MaxDrops times at most.
FairClient ==
  /\ WF_vars(Connect(TheBrowser))
  /\ WF_vars(ServerReceive(TheBrowser))
  /\ WF_vars(ClientReceive(TheBrowser))
  /\ WF_vars(Reconnect(TheBrowser))

SpecClientFair == SpecClient /\ FairClient

(***************************************************************************)
(* Claims about transform.                                                 *)
(***************************************************************************)

\* C1 (as claimed) -- TP1 convergence: for every pair of well-formed
\* operations of distinct clients authored against the same base, the replica
\* that applies opB and then transform(opA, opB) and the replica that applies
\* opA and then transform(opB, opA) hold the same string.
C1_TP1Convergence ==
  tpc = "done" => (~docA.threw /\ ~docB.threw /\ docA.text = docB.text)

\* C3 -- tie-break determinism: two concurrent inserts at the same position
\* by clients with distinct ids give, in both application orders,
\* base[0..pos) ++ t_lo ++ t_hi ++ base[pos..), t_lo being the text of the
\* client whose id is lexicographically smaller.
SamePositionInserts ==
  /\ opA.type = "insert"
  /\ opB.type = "insert"
  /\ opA.pos = opB.pos
  /\ opA.clientId # opB.clientId

LowFirst ==
  LET lo == IF StringLess(opA.clientId, opB.clientId) THEN opA ELSE opB
      hi == IF StringLess(opA.clientId, opB.clientId) THEN opB ELSE opA
  IN  Slice(base, 0, opA.pos) \o lo.text \o hi.text \o SliceFrom(base, opA.pos)

C4_ScenarioHelloBangWorld ==
  (tpc = "done" /\ base = Hello
     /\ opA = InsertOp(5, SpaceWorld, "A", 1)
     /\ opB = InsertOp(5, Bang, "B", 1)) =>
       /\ docA.text = Hello \o Bang \o SpaceWorld
       /\ docB.text = Hello \o Bang \o SpaceWorld

\* The case table of transform(a, b) as it is specified: the Insert-Insert,
\* Insert-Delete and Delete-Insert rules, and the six Delete-Delete cases
\* taken top to bottom.  Only pos and len of a may change.
CaseTable(a, b) ==
  LET ae == a.pos + a.len
      be == b.pos + b.len
  IN  CASE a.type = "insert" /\ b.type = "insert" ->
             IF a.pos < b.pos THEN a
             ELSE IF a.pos > b.pos THEN [a EXCEPT !.pos = a.pos + Len(b.text)]
             ELSE IF StringLess(b.clientId, a.clientId)
               THEN [a EXCEPT !.pos = a.pos + Len(b.text)]
             ELSE a
        [] a.type = "insert" /\ b.type = "delete" ->
             IF a.pos <= b.pos THEN a
             ELSE IF a.pos >= be THEN [a EXCEPT !.pos = a.pos - b.len]
             ELSE [a EXCEPT !.pos = b.pos]
        [] a.type = "delete" /\ b.type = "insert" ->
             IF b.pos <= a.pos THEN [a EXCEPT !.pos = a.pos + Len(b.text)]
             ELSE IF b.pos >= ae THEN a
             ELSE [a EXCEPT !.len = a.len + Len(b.text)]
        [] a.type = "delete" /\ b.type = "delete" ->
             IF be <= a.pos THEN [a EXCEPT !.pos = a.pos - b.len]
             ELSE IF b.pos >= ae THEN a
             ELSE IF b.pos <= a.pos /\ be >= ae THEN [a EXCEPT !.pos = b.pos, !.len = 0]
             ELSE IF a.pos <= b.pos /\ ae >= be THEN [a EXCEPT !.len = a.len - b.len]
             ELSE IF b.pos < a.pos /\ a.pos < be /\ be < ae
               THEN [a EXCEPT !.pos = b.pos, !.len = ae - be]
             ELSE IF a.pos < b.pos /\ b.pos < ae /\ ae <= be
               THEN [a EXCEPT !.len = b.pos - a.pos]
             ELSE a

\* C27 -- the server transform implements the case table: for every pair of
\* well-formed operations, transform(a, b) has the pos and len the table
\* prescribes, and the type, text, clientId and clientSeq of a.
C27_TransformCaseTable ==
  transformed.done =>
     /\ transformed.a = CaseTable(opA, opB)
     /\ transformed.b = CaseTable(opB, opA)

C27_Witness ==
  /\ transformed.done
  /\ base = <<"a", "b", "c">>
  /\ opA = DeleteOp(1, 2, "A", 0)
  /\ opB = DeleteOp(0, 2, "B", 0)
  /\ transformed.a = DeleteOp(0, 1, "A", 0)
  /\ transformed.b = DeleteOp(0, 1, "B", 0)

\* two operations with the same pos and, for deletes, the same len
SamePosLen(x, y) ==
  /\ x.pos = y.pos
  /\ x.type = "delete" => x.len = y.len

\* C28 -- server and client use the same transform: for every pair of
\* well-formed operations of distinct client ids, transform(op1, op2) of
\* rebase.ts has the pos and len of transform(op1, op2) of transform.ts, the
\* same-position insert tie-break and the overlapping deletes included.
C28_SameTransform ==
  (transformed.done /\ rebased.done) =>
     /\ SamePosLen(rebased.a, transformed.a)
     /\ SamePosLen(rebased.b, transformed.b)

C28_Witness ==
  /\ transformed.done
  /\ rebased.done
  /\ base = <<"a", "b", "c">>
  /\ opA = DeleteOp(0, 2, "B", 0)
  /\ opB = DeleteOp(1, 2, "A", 0)
  /\ rebased.a.len = 1
  /\ rebased.b.pos = 0
  /\ rebased.b.len = 1

\* the insert `ins` lies strictly inside the range of the delete `del`
InsideDeleted(ins, del) ==
  /\ ins.type = "insert"
  /\ del.type = "delete"
  /\ del.pos < ins.pos
  /\ ins.pos < del.pos + del.len

\* the string s holds t as a run of consecutive characters
Contains(s, t) ==
  \E i \in 0..(Len(s) - Len(t)) : SubSeq(s, i + 1, i + Len(t)) = t

\* C29 (as claimed) -- an insert into a concurrently deleted range survives:
\* when the insert lies strictly inside the range of the concurrent delete,
\* the inserted text is in the final document of both replicas, the one that
\* applies the delete and then the transformed insert, and the one that
\* applies the insert and then the transformed delete.
C29_InsertSurvivesDelete ==
  tpc = "done" =>
     /\ InsideDeleted(opA, opB) =>
          Contains(docA.text, opA.text) /\ Contains(docB.text, opA.text)
     /\ InsideDeleted(opB, opA) =>
          Contains(docA.text, opB.text) /\ Contains(docB.text, opB.text)

\* the operation fits the document: 0 <= pos <= |doc| for an insert,
\* 0 <= pos <= pos + len <= |doc| for a delete
InBounds(op, doc) ==
  /\ 0 <= op.pos
  /\ IF op.type = "insert"
       THEN op.pos <= Len(doc)
       ELSE op.len >= 0 /\ op.pos + op.len <= Len(doc)

\* C35 -- transform preserves validity: for well-formed operations a and b
\* in bounds of the base S, transform(a, b) has pos >= 0 and len >= 0 and is
\* in bounds of the document obtained by applying b to S.
C35_TransformPreservesValidity ==
  (transformed.done /\ InBounds(opA, base) /\ InBounds(opB, base)) =>
     /\ InBounds(transformed.a, ApplyToRope(base, opB).text)
     /\ InBounds(transformed.b, ApplyToRope(base, opA).text)

C35_Witness ==
  /\ transformed.done
  /\ base = <<"a", "b", "c">>
  /\ opA = InsertOp(3, <<"x">>, "A", 0)
  /\ opB = DeleteOp(0, 3, "B", 0)
  /\ InBounds(opA, base)
  /\ InBounds(opB, base)
  /\ transformed.a = InsertOp(0, <<"x">>, "A", 0)
  /\ transformed.b = DeleteOp(0, 3, "B", 0)

\* C21 (as claimed) -- three concurrent operations converge under pairwise
\* transforms: for operations a, b, c of the distinct clients A, B, C against
\* the same base, the replica of A (a, T(b,a), T(T(c,a),T(b,a))), the replica
\* of B (b, T(a,b), T(T(c,b),T(a,b))) and the replica of C (c, T(a,c),
\* T(T(b,c),T(a,c))) hold the same string.
C21_ThreeOpConvergence ==
  tpc = "done" =>
    /\ ~docA.threw /\ ~docB.threw /\ ~docC.threw
    /\ docA.text = docB.text
    /\ docB.text = docC.text

(***************************************************************************)
(* Claims about the rope (SpecRope).                                       *)
(***************************************************************************)

\* C22 -- rope round-trip: after any sequence of Rope.insert and Rope.delete
\* calls on a rope built from a text T, rope.toString() is the string the
\* in-range calls give when applied to T by plain string splicing.
C22_RopeRoundTrip == ropeToString(ropeRoot) = plain

C22_Witness ==
  /\ ropeCalls = MaxCalls
  /\ ropeCall.name = "delete"
  /\ ~ropeCall.threw
  /\ ropeCall.len = 1
  /\ ropeRoot.kind = "internal"
  /\ plain = <<"a", "x">>

\* the height of a subtree: 0 for an absent node, 1 for a leaf
RECURSIVE HeightOf(_)
HeightOf(node) ==
  IF Absent(node) THEN 0
  ELSE IF isLeaf(node) THEN 1
  ELSE Max(HeightOf(node.left), HeightOf(node.right)) + 1

RECURSIVE Balanced(_)
Balanced(node) ==
  \/ Absent(node)
  \/ isLeaf(node)
  \/ /\ HeightOf(node.left) - HeightOf(node.right) \in -1..1
     /\ Balanced(node.left)
     /\ Balanced(node.right)

\* C23 (as claimed) -- rope balance: after any sequence of Rope.insert and
\* Rope.delete calls, the heights of the left and right subtrees of every
\* internal node differ by at most 1.
C23_RopeBalance == Balanced(ropeRoot)

\* the step is a call of the mutator `name` with arguments out of range:
\* pos < 0 or pos > length for insert, pos < 0 or pos + len > length for delete
OutOfRangeCall(name) ==
  /\ ropeCall'.name = name
  /\ ropeCalls' = ropeCalls + 1
  /\ \/ ropeCall'.pos < 0
     \/ name = "insert" /\ ropeCall'.pos > ropeLength(ropeRoot)
     \/ name = "delete" /\ ropeCall'.pos + ropeCall'.len > ropeLength(ropeRoot)

\* C24 -- the mutators reject out-of-range arguments without effect:
\* Rope.insert with pos < 0 or pos > length and Rope.delete with pos < 0 or
\* pos + len > length throw, and the rope's text and length are what they
\* were before the call.
C24_Step ==
  (OutOfRangeCall("insert") \/ OutOfRangeCall("delete")) =>
     /\ ropeCall'.threw
     /\ ropeToString(ropeRoot') = ropeToString(ropeRoot)
     /\ ropeLength(ropeRoot') = ropeLength(ropeRoot)

C24_RejectWithoutEffect == [][C24_Step]_vars

C24_Witness ==
  /\ ropeCall.name = "insert"
  /\ ropeCall.threw
  /\ ropeCall.pos = 4
  /\ ropeCall.text = <<"x">>
  /\ ropeToString(ropeRoot) = <<"a", "x", "b">>

\* C25 (as claimed) -- Rope.substring(a, b) returns toString().slice(a, b)
\* whenever 0 <= a <= b <= length, and fails for every other (a, b), the
\* empty rope included.
C25_Step ==
  (ropeCall'.name = "substring" /\ ropeCalls' = ropeCalls + 1) =>
     LET a == ropeCall'.start
         b == ropeCall'.end
     IN  IF 0 <= a /\ a <= b /\ b <= ropeLength(ropeRoot)
           THEN /\ ~ropeCall'.threw
                /\ ropeCall'.value = Slice(ropeToString(ropeRoot), a, b)
           ELSE ropeCall'.threw

C25_SubstringContract == [][C25_Step]_vars

(***************************************************************************)
(* Claims about the FenwickTree (SpecFenwick).                             *)
(***************************************************************************)

\* the sum of the deltas added at the indices 0..k
RECURSIVE SumUpTo(_, _)
SumUpTo(added, k) ==
  IF k < 0 THEN 0 ELSE added[k] + SumUpTo(added, k - 1)

\* C26 -- Fenwick prefix sums: after any sequence of update(i, d) calls on a
\* FenwickTree of size n, query(k) is the sum of all d added at an index
\* i <= k for 0 <= k < n, 0 for k < 0, and the total of all deltas for k >= n.
C26_Step ==
  (fenCall'.name = "query" /\ fenCalls' = fenCalls + 1) =>
     LET k == fenCall'.idx
         n == fenwick.size
     IN  fenCall'.value = IF k < 0 THEN 0
                          ELSE IF k >= n THEN SumUpTo(deltas, n - 1)
                          ELSE SumUpTo(deltas, k)

C26_FenwickPrefixSums == [][C26_Step]_vars

C26_Witness ==
  /\ fenwick.size = 4
  /\ fenCalls = 3
  /\ deltas[0] = 2
  /\ deltas[2] = -1
  /\ fenCall.name = "query"
  /\ fenCall.idx = 3
  /\ fenCall.value = 1

(***************************************************************************)
(* Claims about the server session (Spec).  A step of Spec handles the     *)
(* event event'; docs is the state before it and docs' the state after.    *)
(***************************************************************************)
\* the step handles an op frame for a document that exists
HandlesOp ==
  /\ event'.kind = "message"
  /\ event'.message.type = "op"
  /\ HasKey(docs, event'.message.docId)

SubmittedOp == event'.message.operation
DocBefore == Get(docs, event'.message.docId)
DocAfter == Get(docs', event'.message.docId)

\* the op would change the text: a non-empty insert, a delete of len >= 1
Effective(o) ==
  \/ o.type = "insert" /\ o.text # <<>>
  \/ o.type = "delete" /\ o.len # 0

\* pos (insert) or pos + len (delete) lies outside the rope
OutOfRange(o, rope) ==
  \/ o.pos < 0
  \/ o.type = "insert" /\ o.pos > Len(rope)
  \/ o.type = "delete" /\ o.pos + o.len > Len(rope)

\* applying the op to the rope throws
RopeFails(o, rope) == Effective(o) /\ OutOfRange(o, rope)

\* a successful Apply
Applies == HandlesOp /\ ~RopeFails(SubmittedOp, DocBefore.rope)

\* the sends of a handler that carry a frame of the given type
SendsOfType(sends, type) ==
  {i \in 1..Len(sends) : sends[i].frame.type = type}

\* C5 -- log monotonicity: a session's serverSeq starts at 0, every
\* successful Apply increases it by exactly 1 and appends the op to the log,
\* nothing else changes either, and after every handler the length of the log
\* equals serverSeq (so log entry k is the op that was assigned k+1).
C5_LogLength ==
  \A d \in 1..Len(docs) : Len(docs[d].ops) = docs[d].serverSeq

C5_Step ==
  \A id \in {"default"} :
    /\ (~HasKey(docs, id) /\ HasKey(docs', id)) =>
         (Get(docs', id).serverSeq = 0 /\ Get(docs', id).ops = <<>>)
    /\ (HasKey(docs, id) /\ HasKey(docs', id)) =>
         IF Applies /\ event'.message.docId = id
           THEN /\ Get(docs', id).serverSeq = Get(docs, id).serverSeq + 1
                /\ Get(docs', id).ops = Append(Get(docs, id).ops, SubmittedOp)
           ELSE /\ Get(docs', id).serverSeq = Get(docs, id).serverSeq
                /\ Get(docs', id).ops = Get(docs, id).ops

C5_LogMonotonicity == [](C5_LogLength) /\ [][C5_Step]_vars

C5_Witness ==
  /\ HasKey(docs, "default")
  /\ Get(docs, "default").serverSeq = 2
  /\ Get(docs, "default").ops = <<InsertOp(0, <<"x">>, "A", 0), DeleteOp(0, 1, "B", 1)>>
  /\ event.kind = "message"
  /\ event.message.type = "op"

\* C6 -- Apply is all-or-nothing on rope failure: when applying the op
\* throws (an insert with pos outside [0, len], a delete with pos + len > len)
\* the rope, serverSeq, the log and the roster are as before, and the only
\* frame sent is an error frame to the sender: no ack, no op frame.
C6_RejectionChangesNothing ==
  [][(HandlesOp /\ RopeFails(SubmittedOp, DocBefore.rope)) =>
       /\ docs' = docs
       /\ Len(out') = 1
       /\ out'[1].to = event'.ws
       /\ out'[1].frame.type = "error"]_vars

C6_Witness ==
  /\ event.kind = "message"
  /\ event.message.type = "op"
  /\ event.message.operation = InsertOp(2, <<"x">>, "A", 1)
  /\ out = <<Send(event.ws, ErrorFrame("Failed to apply operation"))>>
  /\ HasKey(docs, "default")
  /\ Get(docs, "default").serverSeq = 1
  /\ Get(docs, "default").rope = <<"x">>

\* the op with pos brought into [0, len] and len shrunk to fit
Clamped(o, rope) ==
  LET pos == Max(0, Min(o.pos, Len(rope)))
  IN  IF o.type = "insert" THEN [o EXCEPT !.pos = pos]
      ELSE [o EXCEPT !.pos = pos, !.len = Min(o.len, Len(rope) - pos)]

\* the step stamped the op with the next serverSeq, acknowledged it to the
\* sender and broadcast it
Stamped ==
  /\ DocAfter.serverSeq = DocBefore.serverSeq + 1
  /\ \E i \in 1..Len(out') :
       /\ out'[i].to = event'.ws
       /\ out'[i].frame.type = "ack"
       /\ out'[i].frame.serverSeq = DocAfter.serverSeq
  /\ \A c \in 1..Len(DocAfter.clients) :
       readyState[DocAfter.clients[c].ws] = "OPEN" =>
         \E i \in 1..Len(out') :
           /\ out'[i].to = DocAfter.clients[c].ws
           /\ out'[i].frame.type = "op"
           /\ out'[i].frame.serverSeq = DocAfter.serverSeq

\* C7 (as claimed) -- InvalidPosition policy: an op whose pos or pos + len
\* lies outside the rope is clamped and then applied, stamped with the next
\* serverSeq, acknowledged and broadcast.
C7_ClampPolicy ==
  [][(HandlesOp /\ OutOfRange(SubmittedOp, DocBefore.rope)) =>
       /\ Stamped
       /\ DocAfter.rope = ApplyToRope(DocBefore.rope,
                                      Clamped(SubmittedOp, DocBefore.rope)).text]_vars

\* C7 (amended) -- an op whose pos or pos + len lies outside the rope is
\* never clamped.  If it would change the text it is rejected: the session is
\* as before and only an error frame goes to the sender.  If it is zero-width
\* (empty text, len 0) the rope is not consulted: the rope is as before, the
\* op is stamped with the next serverSeq, logged and broadcast with the pos
\* and len it came with, and acknowledged.
C7_OutOfRangePolicy ==
  [][(HandlesOp /\ OutOfRange(SubmittedOp, DocBefore.rope)) =>
       IF Effective(SubmittedOp)
         THEN /\ docs' = docs
              /\ SendsOfType(out', "ack") = {}
              /\ SendsOfType(out', "op") = {}
              /\ SendsOfType(out', "error") # {}
         ELSE /\ Stamped
              /\ DocAfter.rope = DocBefore.rope
              /\ DocAfter.ops = Append(DocBefore.ops, SubmittedOp)
              /\ \A i \in SendsOfType(out', "op") :
                   out'[i].frame.operation = SubmittedOp]_vars

C7_Witness ==
  /\ event.kind = "message"
  /\ event.message.type = "op"
  /\ event.message.operation = InsertOp(2, <<>>, "A", 0)
  /\ HasKey(docs, "default")
  /\ Get(docs, "default").rope = <<"x">>
  /\ Get(docs, "default").serverSeq = 2
  /\ Get(docs, "default").ops[2] = InsertOp(2, <<>>, "A", 0)
  /\ SendsOfType(out, "ack") # {}

\* C8 -- every successfully applied op produces exactly one ack; it goes to
\* the connection that submitted the op and carries the op's clientSeq and
\* the serverSeq just assigned.
C8_ExactlyOneAck ==
  [][Applies =>
       /\ Cardinality(SendsOfType(out', "ack")) = 1
       /\ \A i \in SendsOfType(out', "ack") :
            /\ out'[i].to = event'.ws
            /\ out'[i].frame.clientSeq = SubmittedOp.clientSeq
            /\ out'[i].frame.serverSeq = DocBefore.serverSeq + 1
            /\ out'[i].frame.serverSeq = DocAfter.serverSeq]_vars

C8_Witness ==
  /\ event.kind = "message"
  /\ event.message.type = "op"
  /\ event.ws = 2
  /\ out[1] = Send(2, AckFrame(DeleteOp(0, 1, "B", 1), 2))
  /\ Cardinality(SendsOfType(out, "ack")) = 1
  /\ Len(out) = 3

\* C9 -- after a successful Apply the stamped op is sent, with its serverSeq,
\* to every client of the document's roster, other than the originator, whose
\* connection is open.
C9_BroadcastToOthers ==
  [][Applies =>
       \A c \in 1..Len(DocAfter.clients) :
         (/\ \/ DocAfter.clients[c].ws # event'.ws
             \/ DocAfter.clients[c].id # SubmittedOp.clientId
          /\ readyState'[DocAfter.clients[c].ws] = "OPEN") =>
            \E i \in 1..Len(out') :
              out'[i] = Send(DocAfter.clients[c].ws,
                             OpFrame(SubmittedOp, DocAfter.serverSeq))]_vars

C9_Witness ==
  /\ event.kind = "message"
  /\ event.message.type = "op"
  /\ event.ws = 1
  /\ HasKey(docs, "default")
  /\ Len(Get(docs, "default").clients) = 2
  /\ Get(docs, "default").clients[1].ws = 1
  /\ Get(docs, "default").clients[2].ws = 2
  /\ \E i \in 1..Len(out) : out[i] = Send(2, OpFrame(event.message.operation, 2))

\* C10 -- clients observe ops in log order: a connection that joins once and
\* receives joined{seq = N} is sent the op frames N+1, N+2, ... in this order,
\* without gap or duplicate, for as long as it remains in the roster: while
\* it is there the last frame sent to it carries the session's serverSeq.
C10_OpsInLogOrder ==
  \A ws \in WS :
    seen[ws].joins = 1 =>
      /\ seen[ws].inOrder
      /\ \A d \in 1..Len(docs) :
           (/\ readyState[ws] = "OPEN"
            /\ \E c \in 1..Len(docs[d].clients) : docs[d].clients[c].ws = ws)
             => seen[ws].last = docs[d].serverSeq

C10_Witness ==
  /\ seen[2] = [joins |-> 1, first |-> 1, last |-> 2, inOrder |-> TRUE]
  /\ event.kind = "message"
  /\ event.message.type = "op"
  /\ \E i \in 1..Len(out) : out[i].to = 2 /\ out[i].frame.type = "op"

\* the text the server holds after applying the ops of a log, in order, to
\* the empty rope of a new session
RECURSIVE ReplayLog(_)
ReplayLog(ops) ==
  IF ops = <<>> THEN <<>>
  ELSE applyOperation(ReplayLog(SubSeq(ops, 1, Len(ops) - 1)), ops[Len(ops)]).text

\* C11 -- join snapshot atomicity: under any interleaving of join and op
\* messages the (seq, doc) pair of a joined frame is consistent: seq is the
\* session's serverSeq, and doc is the rope text at that serverSeq, which is
\* the result of the first seq logged ops.
C11_RopeIsLogReplay ==
  \A d \in 1..Len(docs) : docs[d].rope = ReplayLog(docs[d].ops)

C11_JoinedPair ==
  \A i \in SendsOfType(out', "joined") :
    /\ event'.kind = "message"
    /\ event'.message.type = "join"
    /\ out'[i].to = event'.ws
    /\ HasKey(docs', "default")
    /\ out'[i].frame.seq = Get(docs', "default").serverSeq
    /\ out'[i].frame.seq <= Len(Get(docs', "default").ops)
    /\ out'[i].frame.doc = Get(docs', "default").rope
    /\ out'[i].frame.doc =
         ReplayLog(SubSeq(Get(docs', "default").ops, 1, out'[i].frame.seq))

C11_JoinSnapshotAtomicity == [](C11_RopeIsLogReplay) /\ [][C11_JoinedPair]_vars

C11_Witness ==
  /\ event.kind = "message"
  /\ event.message.type = "join"
  /\ event.ws = 2
  /\ Len(out) >= 1
  /\ out[1].to = 2
  /\ out[1].frame.type = "joined"
  /\ out[1].frame.seq = 2
  /\ out[1].frame.doc = <<"x">>
  /\ HasKey(docs, "default")
  /\ Get(docs, "default").ops[1] = InsertOp(0, <<"x">>, "A", 0)

\* C12 -- session lifecycle: a session is created by the first join and is
\* removed from the registry exactly when its last roster member
\* disconnects: after every handler every session of the registry has a
\* roster that is not empty and holds a member whose connection is open.
C12_SessionLifecycle ==
  \A d \in 1..Len(docs) :
    /\ docs[d].clients # <<>>
    /\ \E c \in 1..Len(docs[d].clients) :
         readyState[docs[d].clients[c].ws] = "OPEN"

\* C32 -- zero-width ops are accepted as no-ops: an insert with empty text or
\* a delete with len 0 submitted to the server leaves the rope text as it
\* was, while serverSeq advances by 1 and the op is logged, acknowledged to
\* its sender and broadcast to the roster.
C32_ZeroWidthAccepted ==
  [][(HandlesOp /\ ~Effective(SubmittedOp)) =>
       /\ DocAfter.rope = DocBefore.rope
       /\ DocAfter.ops = Append(DocBefore.ops, SubmittedOp)
       /\ Stamped
       /\ SendsOfType(out', "error") = {}
       /\ \A i \in SendsOfType(out', "op") :
            out'[i].frame = OpFrame(SubmittedOp, DocAfter.serverSeq)]_vars

C32_Witness ==
  /\ event.kind = "message"
  /\ event.message.type = "op"
  /\ event.message.operation = DeleteOp(2, 0, "B", 0)
  /\ HasKey(docs, "default")
  /\ Get(docs, "default").rope = <<"x">>
  /\ Get(docs, "default").ops = <<InsertOp(0, <<"x">>, "A", 0), DeleteOp(2, 0, "B", 0)>>
  /\ out[1] = Send(event.ws, AckFrame(DeleteOp(2, 0, "B", 0), 2))
  /\ SendsOfType(out, "op") # {}

(***************************************************************************)
(* Claims about the whole protocol (SpecSync).                             *)
(***************************************************************************)
\* every browser has joined, every issued op has been acknowledged and
\* nothing is in flight
Quiescent ==
  /\ \A c \in Browsers :
       /\ client[c].connected
       /\ client[c].queue = <<>>
       /\ ~client[c].waiting
  /\ \A ws \in Sockets : c2s[ws] = <<>> /\ s2c[ws] = <<>>

\* every browser joined before the server applied an op: its joined frame
\* carried sequence number 0 (onOperation and onAck leave serverSeqRef alone)
JoinedFirst == \A c \in Browsers : client[c].serverSeq = 0

\* C2 -- three-replica convergence: with three browsers joined to the same
\* document and FIFO delivery per connection, once every issued op has been
\* acknowledged and every broadcast delivered, the texts of the three
\* Editors are equal.
C2_ThreeReplicaConvergence ==
  (Quiescent /\ JoinedFirst) =>
     \A c, d \in Browsers : client[c].value = client[d].value

(***************************************************************************)
(* Claims about the browser's handlers (SpecSync, SpecClient).  A step in  *)
(* which a browser takes a frame removes the head of its channel.          *)
(***************************************************************************)
\* the step is browser c's ws.onmessage on a frame of the given type
Receives(c, type) ==
  /\ s2c[SocketOf[c]] # <<>>
  /\ Head(s2c[SocketOf[c]]).type = type
  /\ s2c'[SocketOf[c]] = Tail(s2c[SocketOf[c]])
  /\ readyState' = readyState

InboundFrame(c) == Head(s2c[SocketOf[c]])

\* the step is browser c taking an op frame authored under another client id
ReceivesRemoteOp(c) ==
  /\ Receives(c, "op")
  /\ InboundFrame(c).operation.clientId # client[c].clientId

\* the local ops of a browser that are not acknowledged, in issue order: the
\* sent ones as the outbox holds them, then the queued ones not yet sent
Unsent(a) ==
  LET notInOutbox(op) == \A i \in 1..Len(a.outbox) : a.outbox[i].clientSeq # op.clientSeq
  IN  SelectSeq(a.queue, notInOutbox)

Unacked(a) == a.outbox \o Unsent(a)

\* an op applied to a text the way the Editor applies the ops it is handed
EditorApplyOp(value, op) ==
  IF op.type = "insert" /\ op.text # <<>>
    THEN EditorApply(value, op.pos, TRUE, op.text, 0)
  ELSE IF op.type = "delete" /\ op.len # 0
    THEN EditorApply(value, op.pos, FALSE, <<>>, op.len)
  ELSE value

\* C13 -- inbound rebase: when an op s authored by another client arrives,
\* the operation the browser applies to its local text is s transformed in
\* order against its unacknowledged local ops.
C13_InboundRebase ==
  [][\A c \in DOMAIN client :
       (ReceivesRemoteOp(c) /\ client[c].connected) =>
          client'[c].value =
            EditorApplyOp(client[c].value,
                          rebaseOperation(InboundFrame(c).operation,
                                          Unacked(client[c])))]_vars

\* an op spliced into a text: an insert puts its text at pos, a delete takes
\* len characters from pos on and leaves the rest in place
Splice(text, op) ==
  IF op.type = "insert"
    THEN Slice(text, 0, op.pos) \o op.text \o SliceFrom(text, op.pos)
    ELSE Slice(text, 0, op.pos) \o SliceFrom(text, op.pos + op.len)

\* C30 (as claimed) -- applying an inbound remote op to the browser's local
\* text is a correct splice: an insert yields text[0..pos) ++ op.text ++
\* text[pos..), a delete yields text[0..pos) ++ text[pos+len..), with every
\* character after the deleted range in place.
C30_InboundSplice ==
  [][\A c \in DOMAIN client :
       (ReceivesRemoteOp(c) /\ client[c].connected) =>
          client'[c].value = Splice(client[c].value, InboundFrame(c).operation)]_vars

\* a text after a sequence of ops, each applied as the server applies it
RECURSIVE ReplayOnto(_, _)
ReplayOnto(text, ops) ==
  IF ops = <<>> THEN text
  ELSE ReplayOnto(applyOperation(text, Head(ops)).text, Tail(ops))

\* C14 -- outbox consistency after an inbound op: once a browser has
\* processed an op of another client, every unacknowledged local op (sent or
\* still queued) has been rewritten by transforming it against the inbound
\* op, and applying the rewritten ops in order to the server's document as
\* it was after that op reproduces the browser's local text.
C14_OutboxConsistency ==
  [][\A c \in DOMAIN client :
       (/\ ReceivesRemoteOp(c)
        /\ client[c].connected
        /\ HasKey(docs, "default")
        /\ InboundFrame(c).serverSeq <= Len(Get(docs, "default").ops)) =>
          LET s == InboundFrame(c).operation
              before == Unacked(client[c])
              after == Unacked(client'[c])
              serverDoc == ReplayLog(SubSeq(Get(docs, "default").ops, 1,
                                            InboundFrame(c).serverSeq))
          IN  /\ after = [i \in 1..Len(before) |-> rebaseTransform(before[i], s)]
              /\ ReplayOnto(serverDoc, after) = client'[c].value]_vars

\* C15 -- own-op echo is skipped: when a browser receives an op frame whose
\* clientId is its own client id, its local text, its outbox and its pending
\* queue are left as they were.
C15_OwnEchoSkipped ==
  [][\A c \in DOMAIN client :
       (/\ Receives(c, "op")
        /\ InboundFrame(c).operation.clientId = client[c].clientId) =>
          /\ client'[c].value = client[c].value
          /\ client'[c].outbox = client[c].outbox
          /\ client'[c].queue = client[c].queue]_vars

\* the browser typed "a", the server applied it, and the ack and the echo
\* of the op have both been taken
C15_Witness ==
  /\ drops = 0
  /\ readyState[SocketOf[TheBrowser]] = "OPEN"
  /\ HasKey(docs, "default")
  /\ Get(docs, "default").ops = <<InsertOp(0, <<"a">>, "A", 0)>>
  /\ s2c[SocketOf[TheBrowser]] = <<>>
  /\ c2s[SocketOf[TheBrowser]] = <<>>
  /\ client[TheBrowser].clientId = "A"
  /\ client[TheBrowser].value = <<"a">>
  /\ client[TheBrowser].queue = <<>>
  /\ client[TheBrowser].outbox = <<>>

\* the entries of an outbox whose clientSeq is greater than k, in order
Above(pending, k) ==
  LET greater(op) == op.clientSeq > k
  IN  SelectSeq(pending, greater)

\* C16 (as claimed) -- ack pruning: after a browser has processed ack(k) its
\* outbox contains exactly the previously held entries whose clientSeq is
\* greater than k, in their previous order.
C16_AckPruning ==
  [][\A c \in DOMAIN client :
       Receives(c, "ack") =>
         client'[c].outbox = Above(client[c].outbox, InboundFrame(c).clientSeq)]_vars

\* C16 (amended) -- after a browser has processed ack(k) its outbox contains
\* the previously held entries whose clientSeq is greater than k, in their
\* previous order, followed by the op now at the head of the pending queue,
\* if there is one: onAck sends that op at once and adds it to the outbox.
C16_AckPruningThenSend ==
  [][\A c \in DOMAIN client :
       Receives(c, "ack") =>
         client'[c].outbox =
           Above(client[c].outbox, InboundFrame(c).clientSeq)
           \o (IF client'[c].queue = <<>> THEN <<>>
               ELSE <<Head(client'[c].queue)>>)]_vars

\* the browser made two edits in a row; the first has been acknowledged and
\* the second has taken its place in the outbox
C16_Witness ==
  /\ client[TheBrowser].nextLocalSeq = 2
  /\ Len(client[TheBrowser].queue) = 1
  /\ client[TheBrowser].queue[1].clientSeq = 1
  /\ client[TheBrowser].outbox = client[TheBrowser].queue
  /\ client[TheBrowser].waiting
  /\ HasKey(docs, "default")
  /\ \E i \in 1..Len(Get(docs, "default").ops) :
       /\ Get(docs, "default").ops[i].clientId = "A"
       /\ Get(docs, "default").ops[i].clientSeq = 0
  /\ \A i \in 1..Len(s2c[SocketOf[TheBrowser]]) :
       s2c[SocketOf[TheBrowser]][i].type # "ack"
  /\ drops = 0

\* the frames of a channel that have the given type
FramesOfType(channel, type) ==
  LET hasType(frame) == frame.type = type
  IN  SelectSeq(channel, hasType)

\* C17 -- strict send discipline: at every moment a browser has at most one
\* op that has been sent and not yet acknowledged (one outbox entry, one op
\* frame on its way or one ack on its way back), that op is the head of the
\* pending queue, and every further local op waits in the queue behind it.
C17_StrictSendDiscipline ==
  \A c \in DOMAIN client :
    LET a == client[c]
        sent == FramesOfType(c2s[SocketOf[c]], "op")
        acks == FramesOfType(s2c[SocketOf[c]], "ack")
    IN  /\ Len(a.outbox) <= 1
        /\ Len(sent) + Len(acks) <= 1
        /\ ~a.waiting => (a.queue = <<>> /\ sent = <<>> /\ acks = <<>>)
        /\ \A i \in 1..Len(sent) :
             /\ a.queue # <<>>
             /\ sent[i].operation = Head(a.queue)
        /\ \A i \in 1..Len(acks) :
             /\ a.queue # <<>>
             /\ acks[i].clientSeq = Head(a.queue).clientSeq
        /\ \A i \in 1..Len(a.outbox) :
             /\ a.queue # <<>>
             /\ a.outbox[i].clientSeq = Head(a.queue).clientSeq

\* two local ops, the first on its way to the server, the second waiting
C17_Witness ==
  /\ Len(client[TheBrowser].queue) = 2
  /\ client[TheBrowser].waiting
  /\ FramesOfType(c2s[SocketOf[TheBrowser]], "op") =
       <<[type |-> "op", docId |-> "default",
          operation |-> Head(client[TheBrowser].queue)]>>
  /\ Len(client[TheBrowser].outbox) = 1

\* C18 -- reconnect reset: when a browser that was joined before re-joins
\* after a connection loss and receives a new joined{seq = N, doc = D}, its
\* outbox is empty, its base server sequence number is N and its local text
\* is D.
C18_ReconnectReset ==
  [][\A c \in DOMAIN client :
       (Receives(c, "joined") /\ client[c].connected) =>
          /\ client'[c].outbox = <<>>
          /\ client'[c].serverSeq = InboundFrame(c).seq
          /\ client'[c].value = InboundFrame(c).doc]_vars

\* C19 -- clientSeq is strictly monotonic per browser, starting at 0: the ops
\* a browser issues carry clientSeq 0, 1, 2, ... in issue order, with no
\* repeat and no gap, across acks and reconnects of the same App instance.
\* The ops waiting in the queue are numbered consecutively up to the last
\* number given out, and a step either issues no op or issues the op with
\* the next number.
C19_QueueNumbering ==
  \A c \in DOMAIN client :
    \A i \in 1..Len(client[c].queue) :
      client[c].queue[i].clientSeq =
        client[c].nextLocalSeq - Len(client[c].queue) + i - 1

C19_Step ==
  \A c \in DOMAIN client :
    LET a == client[c]
        b == client'[c]
    IN  IF b.nextLocalSeq = a.nextLocalSeq
          THEN b.queue = a.queue \/ (a.queue # <<>> /\ b.queue = Tail(a.queue))
          ELSE /\ b.nextLocalSeq = a.nextLocalSeq + 1
               /\ b.queue = Append(a.queue, b.queue[Len(b.queue)])
               /\ b.queue[Len(b.queue)].clientSeq = a.nextLocalSeq

C19_ClientSeqMonotonic ==
  /\ \A c \in DOMAIN client : client[c].nextLocalSeq = 0 /\ client[c].queue = <<>>
  /\ [](C19_QueueNumbering)
  /\ [][C19_Step]_vars

\* the first op was acknowledged, the connection was lost and restored, and
\* the op typed after the re-join carries clientSeq 1
C19_Witness ==
  /\ drops = 1
  /\ readyState[SocketOf[TheBrowser]] = "OPEN"
  /\ client[TheBrowser].connected
  /\ client[TheBrowser].nextLocalSeq = 2
  /\ Len(client[TheBrowser].queue) = 1
  /\ client[TheBrowser].queue[1].clientSeq = 1
  /\ FramesOfType(c2s[SocketOf[TheBrowser]], "op") # <<>>

\* C20 -- the base server sequence number tracks the log: after a browser
\* has processed an inbound op frame with serverSeq n, its base server
\* sequence number is n.
C20_BaseSeqTracksLog ==
  [][\A c \in DOMAIN client :
       Receives(c, "op") =>
         client'[c].serverSeq = InboundFrame(c).serverSeq]_vars

(***************************************************************************)
(* Further claims about the server session (Spec).                         *)
(***************************************************************************)

\* the string a log gives when its ops are spliced, in log order, into the
\* empty string
RECURSIVE SpliceLog(_)
SpliceLog(ops) ==
  IF ops = <<>> THEN <<>>
  ELSE Splice(SpliceLog(SubSeq(ops, 1, Len(ops) - 1)), ops[Len(ops)])

\* C34 -- the server rope equals the replay of its log: after every handler
\* the rope text of every document session is the string obtained by
\* applying the session's logged ops, in log order, to the empty string.
C34_RopeEqualsLogReplay ==
  \A d \in 1..Len(docs) : docs[d].rope = SpliceLog(docs[d].ops)

C34_Witness ==
  /\ HasKey(docs, "default")
  /\ Get(docs, "default").rope = <<"x", "x">>
  /\ Get(docs, "default").ops =
       <<InsertOp(0, <<"x">>, "A", 0), InsertOp(0, <<"x">>, "A", 0)>>
  /\ event.kind = "message"
  /\ event.message.type = "op"

\* the socket is registered in the roster under the client id
Registered(doc, ws, clientId) ==
  \E c \in 1..Len(doc.clients) :
    doc.clients[c].ws = ws /\ doc.clients[c].id = clientId

\* C36 (as claimed) -- only roster members edit under their own id: every op
\* the server applies, logs and broadcasts was submitted over a connection
\* that is, at that moment, registered in the document's roster under the
\* op's clientId.
C36_OnlyRosterMembersEdit ==
  [][Applies => Registered(DocBefore, event'.ws, SubmittedOp.clientId)]_vars

\* the socket has an entry in the roster
InRoster(doc, ws) ==
  \E c \in 1..Len(doc.clients) : doc.clients[c].ws = ws

\* the step is the socket's own disconnect: its 'close' event or a
\* disconnect frame it sent
OwnDisconnect(ws) ==
  /\ event'.ws = ws
  /\ \/ event'.kind = "close"
     \/ event'.kind = "message" /\ event'.message.type = "disconnect"

\* C37 (as claimed) -- a joined connection stays subscribed: a connection
\* that has joined a document and is still open remains in the document's
\* roster until that connection itself disconnects, also when another
\* connection joins with the same clientId.
C37_JoinedStaysSubscribed ==
  [][\A ws \in WS, d \in 1..Len(docs) :
       (InRoster(docs[d], ws) /\ readyState'[ws] = "OPEN" /\ ~OwnDisconnect(ws)) =>
          /\ HasKey(docs', docs[d].id)
          /\ InRoster(Get(docs', docs[d].id), ws)]_vars

\* C38 (as claimed) -- no stale roster entries: after a connection has
\* closed, no roster entry of any document refers to it, whatever joins the
\* connection performed before it closed.
C38_NoStaleRosterEntries ==
  \A ws \in WS :
    readyState[ws] = "CLOSED" =>
      \A d \in 1..Len(docs) : ~InRoster(docs[d], ws)

(***************************************************************************)
(* Claims about the TransformEngine (SpecShift).                           *)
(***************************************************************************)
\* C40 (as claimed) -- buildShiftIndex always allocates enough room: for
\* any list of ops with non-negative positions, recording every op of the
\* list in the tree it creates raises no 'Index out of bounds' error, also
\* for an op whose pos equals the default size or the grown size.
C40_ShiftIndexHasRoom ==
  shiftIndex.done => ~shiftIndex.threw

\* a tail of inserts only, all of them strictly before the op, and the op
\* not at the start
SimpleTail ==
  /\ shiftOp.pos > 0
  /\ \A i \in DOMAIN shiftTail :
       shiftTail[i].type = "insert" /\ shiftTail[i].pos < shiftOp.pos

\* C33 (as claimed) -- the ShiftIndex rebase agrees with the pairwise fold
\* on simple tails: for an op with pos > 0 and a tail of inserts whose
\* positions are all strictly less than op.pos, transformAgainstTail(op,
\* tail) returns the same pos as transformAgainstOps(op, tail).
C33_ShiftAgreesWithFold ==
  (viaTail.done /\ viaFold.done /\ SimpleTail) =>
     /\ ~viaTail.result.threw
     /\ viaTail.result.op.pos = viaFold.op.pos

(***************************************************************************)
(* Claims about the connection of the client (SpecConn).                   *)
(***************************************************************************)
NoPendingTimeout ==
  \A id \in DOMAIN timeouts : timeouts[id] # "pending"

\* C39 (as claimed) -- explicit disconnect is final: once disconnect() has
\* been called no reconnect timer is pending, none is created later, and
\* the client opens no further connection, wherever the close event of the
\* socket falls relative to the call.
C39_DisconnectIsFinal ==
  /\ [](disconnectCalled => NoPendingTimeout)
  /\ [][disconnectCalled =>
          /\ Len(timeouts') = Len(timeouts)
          /\ Len(webSockets') = Len(webSockets)]_vars

(***************************************************************************)
(* Claims about the progress of the client (SpecClientFair).               *)
(***************************************************************************)
\* the op the browser numbered n is in its pending queue
Queued(n) ==
  \E i \in DOMAIN client[TheBrowser].queue :
    client[TheBrowser].queue[i].clientSeq = n

\* C31 (as claimed) -- every queued local op is eventually acknowledged:
\* under fair delivery and finitely many connection losses, each op the
\* browser places in its pending queue is eventually removed from it by its
\* ack; no rejection by the server, dropped send or reconnect leaves the
\* browser waiting for ever.
C31_QueuedOpEventuallyAcked ==
  \A n \in 0..MaxEdits : Queued(n) ~> ~Queued(n)

=============================================================================
